---- MODULE Spec2Model ----
(***************************************************************************)
(* Text-engine generation orchestration layer of creative-ai-suite-v2:     *)
(* the retry engine (executeWithRetry), the error classifier               *)
(* (isRetryableError, mapToServiceError), the backoff policy               *)
(* (calculateBackoff) and the cached dispatch (generateText) of            *)
(* services/text-engine/src/services/openai.service.js, and the handlers   *)
(* generateText and batchGenerate of the text-generation controller.       *)
(*                                                                         *)
(* Conventions.  A raw error is a record                                   *)
(*   [message, code, status, sub, errorCode]                               *)
(* where status = 0 stands for "error.response is undefined", code =       *)
(* "none" for "error.code is undefined", and sub describes                 *)
(* error.response.data: "nodata" (data undefined), "noerr" (data without   *)
(* an error object), "ctx" (data.error.code = 'context_length_exceeded'),  *)
(* "other" (another data.error.code).  errorCode is the ERROR_CODES member *)
(* attached by mapToServiceError ("none" on a raw error).                  *)
(* Times are integer milliseconds, temperatures are integer tenths.        *)
(***************************************************************************)
EXTENDS Integers, Sequences, FiniteSets, TLC

(***************************************************************************)
(* Bounds of the model.                                                    *)
(***************************************************************************)
\* largest maxRetries a caller of executeWithRetry configures in the model
MaxRetriesBound == 3
\* number of generateText dispatches of one behaviour
NumCalls == 2
\* longest prompts array whose items take every shape
BatchItemsBound == 3
\* largest maxRetries of a call whose abandoned operations settle late
LateRetriesBound == 2

(***************************************************************************)
(* Program constants.                                                      *)
(***************************************************************************)
DefaultMaxRetries == 2
DefaultRetryDelay == 1000
DefaultTimeout == 30000
MaxBackoffMs == 30000
JitterRangeMs == 300
DefaultTemperatureTenths == 7
DefaultMaxTokens == 1000
SecondsPerToken == 20
\* editText: temperature = 0.5 (in tenths), and 60 * 60 * 12 seconds
DefaultEditTemperatureTenths == 5
EditCacheTTL == 43200
MaxBatchSize == 10

DEFAULT_CONFIG ==
  [maxRetries |-> DefaultMaxRetries, retryDelay |-> DefaultRetryDelay,
   timeout |-> DefaultTimeout]

Min(a, b) == IF a <= b THEN a ELSE b
Max(a, b) == IF a >= b THEN a ELSE b

(***************************************************************************)
(* Errors.                                                                 *)
(***************************************************************************)
NoError == [message |-> "", code |-> "null", status |-> 0, sub |-> "nodata",
            errorCode |-> "none"]

MkError(m, c, s, d) ==
  [message |-> m, code |-> c, status |-> s, sub |-> d, errorCode |-> "none"]

\* the rejection of the timeout promise raced against the operation
TimeoutError == MkError("Request timed out", "none", 0, "nodata")

Messages == {"Request timed out", "upstream timed out", "request failed"}
Codes == {"none", "ETIMEDOUT", "ECONNRESET", "ECONNREFUSED", "ENOTFOUND", "EPIPE"}
Statuses == {400, 401, 403, 404, 418, 429, 500, 502, 503, 504}
DataShapes == {"nodata", "noerr", "ctx", "other"}

\* every raw error an operation can reject with (Error objects: message is a string)
RawErrors ==
  {MkError(m, c, 0, "nodata") : m \in Messages, c \in Codes}
  \cup {MkError(m, c, s, "noerr") : m \in Messages, c \in Codes, s \in Statuses}
  \cup {MkError(m, c, 400, d) : m \in Messages, c \in Codes, d \in DataShapes}

\* String.prototype.includes('timed out') on the messages of the model
IncludesTimedOut(m) == m \in {"Request timed out", "upstream timed out"}

\* the timeout test left out
isRetryableError_NoTimeoutCheck(error) ==
  IF error.status # 0
    THEN error.status \in {429, 500, 502, 503, 504}
    ELSE error.code \in {"ECONNRESET", "ECONNREFUSED", "ENOTFOUND"}

\* the connection codes tested whether or not a response came
isRetryableError_CodeBeforeStatus(error) ==
  \/ IncludesTimedOut(error.message) \/ error.code = "ETIMEDOUT"
  \/ error.code \in {"ECONNRESET", "ECONNREFUSED", "ENOTFOUND"}
  \/ error.status \in {429, 500, 502, 503, 504}

isRetryableError(error) ==
  IF IncludesTimedOut(error.message) \/ error.code = "ETIMEDOUT"
    THEN TRUE
    ELSE IF error.status # 0
      THEN error.status \in {429, 500, 502, 503, 504}
      ELSE error.code \in {"ECONNRESET", "ECONNREFUSED", "ENOTFOUND"}

\* the 30 s cap left out
calculateBackoff_NoCap(attempt, baseDelay, jitter) ==
  (2 ^ attempt) * baseDelay + jitter

calculateBackoff(attempt, baseDelay, jitter) ==
  Min((2 ^ attempt) * baseDelay + jitter, MaxBackoffMs)

\* a service error made by mapToServiceError: new Error(message) plus fields
ServiceError(m, c, ec) ==
  [message |-> m, code |-> c, status |-> 0, sub |-> "nodata", errorCode |-> ec]

\* what `data.error?.code` raises when error.response.data is undefined
DataTypeError ==
  MkError("Cannot read properties of undefined (reading 'error')", "none", 0, "nodata")

mapToServiceError(error) ==
  IF error = NoError THEN MkError("Unknown error occurred", "none", 0, "nodata")
  ELSE IF error.status = 400 /\ error.sub = "nodata" THEN DataTypeError
  ELSE IF error.status = 400 /\ error.sub = "ctx"
    THEN ServiceError("Prompt exceeds maximum context length for the model",
                      "context_length_exceeded", "CONTEXT_LENGTH_EXCEEDED")
  ELSE IF error.status = 401 THEN ServiceError("Invalid API key", "none", "UNAUTHORIZED")
  ELSE IF error.status = 403 THEN ServiceError("Permission denied", "none", "FORBIDDEN")
  ELSE IF error.status = 404
    THEN ServiceError("Requested resource not found", "none", "RESOURCE_NOT_FOUND")
  ELSE IF error.status = 429
    THEN ServiceError("Rate limit exceeded", "none", "RATE_LIMIT_EXCEEDED")
  ELSE error

(***************************************************************************)
(* Strings.  A prompt is a sequence of UTF-16 code units.  Buffer.from(s)  *)
(* encodes to UTF-8: a high surrogate followed by a low surrogate is one   *)
(* code point of four bytes, any other surrogate is lone and becomes       *)
(* U+FFFD.  toString('base64') encodes to RFC 4648 text.                   *)
(***************************************************************************)
Utf8OfUnit(u) ==
  IF u < 128 THEN <<u>>
  ELSE IF u < 2048 THEN <<192 + (u \div 64), 128 + (u % 64)>>
  ELSE IF u >= 55296 /\ u <= 57343 THEN <<239, 191, 189>>
  ELSE <<224 + (u \div 4096), 128 + ((u \div 64) % 64), 128 + (u % 64)>>

\* the four bytes of the code point of a surrogate pair
Utf8OfPair(hi, lo) ==
  LET cp == 65536 + (hi - 55296) * 1024 + (lo - 56320) IN
    <<240 + (cp \div 262144), 128 + ((cp \div 4096) % 64),
      128 + ((cp \div 64) % 64), 128 + (cp % 64)>>

RECURSIVE BufferFrom(_)
BufferFrom(s) ==
  IF s = <<>> THEN <<>>
  ELSE IF Len(s) >= 2 /\ s[1] \in 55296 .. 56319 /\ s[2] \in 56320 .. 57343
    THEN Utf8OfPair(s[1], s[2]) \o BufferFrom(SubSeq(s, 3, Len(s)))
  ELSE Utf8OfUnit(Head(s)) \o BufferFrom(Tail(s))

Base64Alphabet ==
  <<"A","B","C","D","E","F","G","H","I","J","K","L","M","N","O","P",
    "Q","R","S","T","U","V","W","X","Y","Z","a","b","c","d","e","f",
    "g","h","i","j","k","l","m","n","o","p","q","r","s","t","u","v",
    "w","x","y","z","0","1","2","3","4","5","6","7","8","9","+","/">>

B64(i) == Base64Alphabet[i + 1]

RECURSIVE ToBase64(_)
ToBase64(b) ==
  IF Len(b) = 0 THEN ""
  ELSE IF Len(b) = 1
    THEN B64(b[1] \div 4) \o B64((b[1] % 4) * 16) \o "=="
  ELSE IF Len(b) = 2
    THEN B64(b[1] \div 4) \o B64((b[1] % 4) * 16 + (b[2] \div 16))
         \o B64((b[2] % 16) * 4) \o "="
  ELSE B64(b[1] \div 4) \o B64((b[1] % 4) * 16 + (b[2] \div 16))
       \o B64((b[2] % 16) * 4 + (b[3] \div 64)) \o B64(b[3] % 64)
       \o ToBase64(SubSeq(b, 4, Len(b)))

\* String(n) of a number held in tenths: 7 is 0.7, 10 is 1, 0 is 0
TemperatureString(t) ==
  IF t % 10 = 0 THEN ToString(t \div 10)
  ELSE ToString(t \div 10) \o "." \o ToString(t % 10)

(***************************************************************************)
(* generateText parameters.  A params object is a record whose DOMAIN      *)
(* holds the keys the caller supplied; Destructure applies the defaults    *)
(* of the destructuring pattern.                                           *)
(***************************************************************************)
Get(obj, k, d) == IF k \in DOMAIN obj THEN obj[k] ELSE d

Destructure(params) ==
  [prompt |-> params.prompt,
   systemPrompt |-> Get(params, "systemPrompt", <<>>),
   temperature |-> Get(params, "temperature", DefaultTemperatureTenths),
   maxTokens |-> Get(params, "maxTokens", DefaultMaxTokens),
   model |-> Get(params, "model", "gpt-4"),
   userId |-> Get(params, "userId", "anonymous"),
   useCaching |-> Get(params, "useCaching", TRUE)]

\* the key of the pre-call lookup
LookupKey(p) ==
  "openai:text:" \o p.model \o ":" \o TemperatureString(p.temperature) \o ":"
  \o ToString(p.maxTokens) \o ":" \o ToBase64(BufferFrom(p.prompt)) \o ":"
  \o ToBase64(BufferFrom(p.systemPrompt))

WriteKey_NoSystemPrompt(p) ==
  "openai:text:" \o p.model \o ":" \o TemperatureString(p.temperature) \o ":"
  \o ToString(p.maxTokens) \o ":" \o ToBase64(BufferFrom(p.prompt))

\* the key of the post-call write
WriteKey(p) ==
  "openai:text:" \o p.model \o ":" \o TemperatureString(p.temperature) \o ":"
  \o ToString(p.maxTokens) \o ":" \o ToBase64(BufferFrom(p.prompt)) \o ":"
  \o ToBase64(BufferFrom(p.systemPrompt))

\* the clamp without its lower bound
cacheTTL_NoFloor(totalTokens) ==
  Min(24 * 60 * 60, totalTokens * SecondsPerToken)

cacheTTL(totalTokens) ==
  Min(24 * 60 * 60, Max(60 * 30, totalTokens * SecondsPerToken))

(***************************************************************************)
(* editText parameters: the defaults of its destructuring pattern, its     *)
(* cache key (the same expression at the lookup and at the write) and the  *)
(* fixed TTL of its entries.                                               *)
(***************************************************************************)
EditDestructure(params) ==
  [text |-> params.text,
   instruction |-> params.instruction,
   model |-> Get(params, "model", "gpt-4"),
   temperature |-> Get(params, "temperature", DefaultEditTemperatureTenths),
   useCaching |-> Get(params, "useCaching", TRUE),
   userId |-> Get(params, "userId", "anonymous")]

EditKey(p) ==
  "openai:edit:" \o p.model \o ":" \o TemperatureString(p.temperature) \o ":"
  \o ToBase64(BufferFrom(p.text)) \o ":" \o ToBase64(BufferFrom(p.instruction))

(***************************************************************************)
(* Backend responses and the response data built from them.  Undef stands  *)
(* for a usage field the backend left out.                                 *)
(***************************************************************************)
Undef == -1

ResponseData(result) ==
  [text |-> result.content,
   usage |-> [promptTokens |-> result.prompt_tokens,
              completionTokens |-> result.completion_tokens,
              totalTokens |-> result.total_tokens],
   model |-> result.model]

\* JSON.stringify: the members in order, those whose value is undefined dropped
JsonStringify(d) ==
  <<<<"text", d.text>>,
    <<"usage", SelectSeq(<<<<"promptTokens", d.usage.promptTokens>>,
                           <<"completionTokens", d.usage.completionTokens>>,
                           <<"totalTokens", d.usage.totalTokens>>>>,
                         LAMBDA kv : kv[2] # Undef)>>,
    <<"model", d.model>>>>

\* JSON.parse of a text JsonStringify made
JsonParse(s) ==
  [text |-> s[1][2],
   usage |-> [k \in {s[2][2][i][1] : i \in DOMAIN s[2][2]} |->
                s[2][2][CHOOSE i \in DOMAIN s[2][2] : s[2][2][i][1] = k][2]],
   model |-> s[3][2]]

(***************************************************************************)
(* Inputs of the model.                                                    *)
(***************************************************************************)
Calls == 1 .. NumCalls

\* Math.random() * 300, sampled
Jitters == {0, JitterRangeMs - 1}

\* options objects handed to executeWithRetry; <<>> is {} (generateText,
\* getSupportedModels), [timeout |-> 5000] is healthCheck's
RetryOptions ==
  {<<>>, [timeout |-> 5000]}
  \cup {[maxRetries |-> m, retryDelay |-> d] : m \in 0 .. MaxRetriesBound,
                                               d \in {0, 1000, 16000}}

\* { ...options, ...DEFAULT_CONFIG }: the defaults win
MergeConfig_DefaultsWin(options) == DEFAULT_CONFIG

\* { ...DEFAULT_CONFIG, ...options }
MergeConfig(options) ==
  [k \in DOMAIN DEFAULT_CONFIG |-> Get(options, k, DEFAULT_CONFIG[k])]

\* raw errors the wrapped operation rejects with in the retry-engine runs:
\* one for each way through mapToServiceError (no response, each status it
\* names, a 400 with each shape of body, any other status), and for the
\* ways that end the same in isRetryableError whatever the message and
\* code, one more whose message or code isRetryableError tests first
RetryErrors ==
  {MkError("request failed", "none", 429, "noerr"),
   MkError("request failed", "none", 503, "noerr"),
   MkError("request failed", "ECONNRESET", 0, "nodata"),
   MkError("request failed", "none", 400, "ctx"),
   MkError("request failed", "none", 400, "nodata"),
   MkError("request failed", "none", 400, "other"),
   MkError("request failed", "none", 401, "noerr"),
   MkError("request failed", "none", 403, "noerr"),
   MkError("request failed", "none", 404, "noerr"),
   MkError("request failed", "EPIPE", 0, "nodata"),
   MkError("upstream timed out", "none", 401, "noerr"),
   MkError("request failed", "ECONNRESET", 404, "noerr"),
   MkError("upstream timed out", "none", 400, "nodata"),
   MkError("request failed", "ECONNRESET", 400, "nodata")}

\* raw errors of the backend in the dispatch runs (the timeout is an action)
DispatchErrors ==
  {MkError("request failed", "none", 401, "noerr")}

\* Math.random() * 300 in the dispatch runs
DispatchJitters == {150}

\* chat completions the backend answers with
Responses ==
  {[content |-> "Hi there", prompt_tokens |-> 5, completion_tokens |-> 3,
    total_tokens |-> 8, model |-> "gpt-4-0613"],
   [content |-> "Hello", prompt_tokens |-> Undef, completion_tokens |-> 95,
    total_tokens |-> 100, model |-> "gpt-4-0613"]}

\* params objects handed to generateText: prompt "Hi", system prompt "B"
GenerateParams ==
  {[prompt |-> <<72, 105>>, model |-> "gpt-4"],
   [prompt |-> <<72, 105>>, useCaching |-> FALSE],
   [prompt |-> <<72, 105>>, systemPrompt |-> <<66>>]}

NoParams == [none |-> TRUE]
NoResult == [none |-> TRUE]

(***************************************************************************)
(* State.                                                                  *)
(***************************************************************************)
VARIABLES
  pc,         \* per call: idle, lookup, racing, backoff, storing, returned, thrown
              \* (editLookup, editStoring in editText)
  caller,     \* per call: "none", "generateText", "editText", or "direct"
  params,     \* per call: the params object of generateText (the options
              \* object, for a direct call of executeWithRetry)
  config,     \* per call: executeWithRetry's merged config
  attempt,    \* per call: the loop variable of executeWithRetry
  lastError,  \* per call: executeWithRetry's lastError
  result,     \* per call: the value returned (or awaiting the cache write)
  thrown,     \* per call: the error the call rejected with
  log,        \* per call: the cache reads, operation calls, outcomes, sleeps, writes
  cache,      \* the cache store: a set of [key, value, ttl], one per key
  fcall,      \* a call of a pure function: [fn, arg, done, ret]
  handler,    \* the controller handler serving the request: none, generateText,
              \* batchGenerate
  hpc,        \* the handler's position: idle, findPref, generating, joining,
              \* metrics, saving, responded
  req,        \* the request: [body, user]
  pref,       \* generateText's userPreference (NoPreference is null)
  eff,        \* generateText's effectiveModel, effectiveTemperature and service
  items,      \* batchGenerate's item promises: [state, value]
  gen,        \* generateText's generationResult
  res,        \* the HTTP response sent, NoResponse before
  hlog        \* the handler's calls of its collaborators and of next(error)

\* the state of the controller handlers
ctlVars == <<handler, hpc, req, pref, eff, items, gen, res, hlog>>

vars == <<pc, caller, params, config, attempt, lastError, result, thrown, log,
          cache, fcall, ctlVars>>

callVars == <<pc, caller, params, config, attempt, lastError, result, thrown, log,
              cache>>

NoCall == [fn |-> "none", arg |-> <<>>, done |-> FALSE, ret |-> <<>>]

InitCalls ==
  /\ pc = [c \in Calls |-> "idle"]
  /\ caller = [c \in Calls |-> "none"]
  /\ params = [c \in Calls |-> NoParams]
  /\ config = [c \in Calls |-> DEFAULT_CONFIG]
  /\ attempt = [c \in Calls |-> 0]
  /\ lastError = [c \in Calls |-> NoError]
  /\ result = [c \in Calls |-> NoResult]
  /\ thrown = [c \in Calls |-> NoError]
  /\ log = [c \in Calls |-> <<>>]
  /\ cache = {}

\* `let userPreference = null`
NoPreference == [none |-> TRUE]
NoRequest == [none |-> TRUE]
NoEffective == [none |-> TRUE]
NoResponse == [none |-> TRUE]

InitHandler ==
  /\ handler = "none"
  /\ hpc = "idle"
  /\ req = NoRequest
  /\ pref = NoPreference
  /\ eff = NoEffective
  /\ items = <<>>
  /\ gen = NoResult
  /\ res = NoResponse
  /\ hlog = <<>>

Init == InitCalls /\ fcall = NoCall /\ InitHandler

(***************************************************************************)
(* The cache store (utils/cache): get(key), set(key, value, ttl), expiry.  *)
(***************************************************************************)
CacheHas(key) == \E e \in cache : e.key = key

CacheGet(key) == (CHOOSE e \in cache : e.key = key).value

CacheSet(key, value, ttl) ==
  {e \in cache : e.key # key} \cup {[key |-> key, value |-> value, ttl |-> ttl]}

CacheExpire ==
  /\ \E e \in cache : cache' = cache \ {e}
  /\ UNCHANGED <<pc, caller, params, config, attempt, lastError, result, thrown,
                 log, fcall, ctlVars>>

(***************************************************************************)
(* executeWithRetry.  One action per resumption of the async function:     *)
(* the call (which runs up to the first `await Promise.race`), the         *)
(* settling of the race (operation resolved, operation rejected, timeout   *)
(* promise rejected) and the end of a backoff sleep (which runs into the   *)
(* next operation call, or out of the loop).                               *)
(***************************************************************************)
OpEvent(k) == [type |-> "op", attempt |-> k]

FailEvent(error, timedOut) ==
  [type |-> "fail", error |-> error, timedOut |-> timedOut]

\* generateText's catch block: log and `throw error`
Rethrow(error) == error

\* what the caller of executeWithRetry rejects with when it throws `error`
Propagate(c, error) ==
  IF caller[c] = "generateText" THEN Rethrow(error) ELSE error

executeWithRetry_Call(c, options) ==
  /\ pc[c] = "idle"
  /\ IF c = 1 THEN TRUE ELSE pc[c - 1] # "idle"
  /\ MergeConfig(options).maxRetries >= 0
  /\ caller' = [caller EXCEPT ![c] = "direct"]
  /\ params' = [params EXCEPT ![c] = options]
  /\ config' = [config EXCEPT ![c] = MergeConfig(options)]
  /\ attempt' = [attempt EXCEPT ![c] = 0]
  /\ log' = [log EXCEPT ![c] = <<OpEvent(0)>>]
  /\ pc' = [pc EXCEPT ![c] = "racing"]
  /\ UNCHANGED <<lastError, result, thrown, cache, fcall, ctlVars>>

\* `break`, then `throw mapToServiceError(lastError)`
FailureThrows_CachesFailure(c, error, timedOut) ==
  /\ pc' = [pc EXCEPT ![c] = "thrown"]
  /\ thrown' = [thrown EXCEPT ![c] = Propagate(c, mapToServiceError(error))]
  /\ IF caller[c] = "generateText" /\ Destructure(params[c]).useCaching
       THEN /\ cache' = CacheSet(WriteKey(Destructure(params[c])),
                                 JsonStringify(ResponseData(
                                   [content |-> error.message, prompt_tokens |-> Undef,
                                    completion_tokens |-> Undef, total_tokens |-> 0,
                                    model |-> Destructure(params[c]).model])),
                                 cacheTTL(0))
            /\ log' = [log EXCEPT ![c] =
                 @ \o <<FailEvent(error, timedOut),
                        [type |-> "set", key |-> WriteKey(Destructure(params[c])),
                         ttl |-> cacheTTL(0)]>>]
       ELSE /\ log' = [log EXCEPT ![c] = Append(@, FailEvent(error, timedOut))]
            /\ UNCHANGED cache
  /\ UNCHANGED attempt

FailureThrows(c, error, timedOut) ==
  /\ pc' = [pc EXCEPT ![c] = "thrown"]
  /\ thrown' = [thrown EXCEPT ![c] = Propagate(c, mapToServiceError(error))]
  /\ log' = [log EXCEPT ![c] = Append(@, FailEvent(error, timedOut))]
  /\ UNCHANGED <<attempt, cache>>

\* the sleep is started but not awaited: the loop goes on at once
FailureSleeps_NotAwaited(c, error, timedOut, J) ==
  /\ attempt[c] + 1 <= config[c].maxRetries
  /\ attempt' = [attempt EXCEPT ![c] = @ + 1]
  /\ log' = [log EXCEPT ![c] =
       @ \o <<FailEvent(error, timedOut), OpEvent(attempt[c] + 1)>>]
  /\ pc' = [pc EXCEPT ![c] = "racing"]
  /\ UNCHANGED <<thrown, cache>>

\* calculateBackoff, then `await new Promise(resolve => setTimeout(resolve, delay))`
FailureSleeps(c, error, timedOut, J) ==
  /\ \E jitter \in J :
       log' = [log EXCEPT ![c] =
         @ \o <<FailEvent(error, timedOut),
                [type |-> "sleep", attempt |-> attempt[c], jitter |-> jitter,
                 ms |-> calculateBackoff(attempt[c], config[c].retryDelay, jitter)]>>]
  /\ pc' = [pc EXCEPT ![c] = "backoff"]
  /\ UNCHANGED <<attempt, thrown, cache>>

\* the catch block of the loop
Failure(c, error, timedOut, J) ==
  /\ pc[c] = "racing"
  /\ lastError' = [lastError EXCEPT ![c] = error]
  /\ IF ~isRetryableError(error) \/ attempt[c] = config[c].maxRetries
       THEN FailureThrows(c, error, timedOut)
       ELSE FailureSleeps(c, error, timedOut, J)
  /\ UNCHANGED <<caller, params, config, result, fcall, ctlVars>>

OperationRejects(c, E, J) == \E error \in E : Failure(c, error, FALSE, J)

TimeoutFires(c, J) == Failure(c, TimeoutError, TRUE, J)

\* the sleep ends: attempt++, the loop test, and the next operation call
BackoffElapses(c) ==
  /\ pc[c] = "backoff"
  /\ attempt' = [attempt EXCEPT ![c] = @ + 1]
  /\ IF attempt[c] + 1 <= config[c].maxRetries
       THEN /\ log' = [log EXCEPT ![c] = Append(@, OpEvent(attempt[c] + 1))]
            /\ pc' = [pc EXCEPT ![c] = "racing"]
            /\ UNCHANGED thrown
       ELSE /\ pc' = [pc EXCEPT ![c] = "thrown"]
            /\ thrown' = [thrown EXCEPT ![c] =
                 Propagate(c, mapToServiceError(lastError[c]))]
            /\ UNCHANGED log
  /\ UNCHANGED <<caller, params, config, lastError, result, cache, fcall, ctlVars>>

(***************************************************************************)
(* generateText.                                                           *)
(***************************************************************************)
generateText_Call(c, p) ==
  /\ pc[c] = "idle"
  /\ IF c = 1 THEN TRUE ELSE pc[c - 1] # "idle"
  /\ caller' = [caller EXCEPT ![c] = "generateText"]
  /\ params' = [params EXCEPT ![c] = p]
  /\ config' = [config EXCEPT ![c] = MergeConfig(<<>>)]
  /\ attempt' = [attempt EXCEPT ![c] = 0]
  /\ IF Destructure(p).useCaching
       THEN /\ pc' = [pc EXCEPT ![c] = "lookup"]
            /\ UNCHANGED log
       ELSE /\ pc' = [pc EXCEPT ![c] = "racing"]
            /\ log' = [log EXCEPT ![c] = <<OpEvent(0)>>]
  /\ UNCHANGED <<lastError, result, thrown, cache, fcall, ctlVars>>

\* a hit that also rewrites the entry it read
generateText_CacheGet_RefreshesOnHit(c) ==
  /\ pc[c] = "lookup"
  /\ LET cacheKey == LookupKey(Destructure(params[c])) IN
       IF CacheHas(cacheKey)
         THEN /\ result' = [result EXCEPT ![c] = JsonParse(CacheGet(cacheKey))]
              /\ log' = [log EXCEPT ![c] =
                   @ \o <<[type |-> "get", key |-> cacheKey, hit |-> TRUE],
                          [type |-> "set", key |-> cacheKey, ttl |-> cacheTTL(0)]>>]
              /\ cache' = CacheSet(cacheKey, CacheGet(cacheKey), cacheTTL(0))
              /\ pc' = [pc EXCEPT ![c] = "returned"]
         ELSE /\ log' = [log EXCEPT ![c] =
                   @ \o <<[type |-> "get", key |-> cacheKey, hit |-> FALSE],
                          OpEvent(0)>>]
              /\ pc' = [pc EXCEPT ![c] = "racing"]
              /\ UNCHANGED <<result, cache>>
  /\ UNCHANGED <<caller, params, config, attempt, lastError, thrown, fcall, ctlVars>>

\* `await cache.get(cacheKey)` answers: return the parsed hit, or run on
\* into executeWithRetry and its first operation call
generateText_CacheGet(c) ==
  /\ pc[c] = "lookup"
  /\ LET cacheKey == LookupKey(Destructure(params[c])) IN
       IF CacheHas(cacheKey)
         THEN /\ result' = [result EXCEPT ![c] = JsonParse(CacheGet(cacheKey))]
              /\ log' = [log EXCEPT ![c] =
                   Append(@, [type |-> "get", key |-> cacheKey, hit |-> TRUE])]
              /\ pc' = [pc EXCEPT ![c] = "returned"]
         ELSE /\ log' = [log EXCEPT ![c] =
                   @ \o <<[type |-> "get", key |-> cacheKey, hit |-> FALSE],
                          OpEvent(0)>>]
              /\ pc' = [pc EXCEPT ![c] = "racing"]
              /\ UNCHANGED result
  /\ UNCHANGED <<caller, params, config, attempt, lastError, thrown, cache, fcall, ctlVars>>

\* the operation's promise wins the race: executeWithRetry returns, and the
\* caller runs on to its next await or to its return
OperationResolves(c, r) ==
  /\ pc[c] = "racing"
  /\ log' = [log EXCEPT ![c] = Append(@, [type |-> "ok", value |-> r])]
  /\ IF caller[c] = "generateText"
       THEN /\ result' = [result EXCEPT ![c] = ResponseData(r)]
            /\ pc' = [pc EXCEPT ![c] =
                 IF Destructure(params[c]).useCaching THEN "storing" ELSE "returned"]
       ELSE IF caller[c] = "editText"
         THEN /\ result' = [result EXCEPT ![c] = ResponseData(r)]
              /\ pc' = [pc EXCEPT ![c] =
                   IF EditDestructure(params[c]).useCaching
                     THEN "editStoring" ELSE "returned"]
         ELSE /\ result' = [result EXCEPT ![c] = r]
              /\ pc' = [pc EXCEPT ![c] = "returned"]
  /\ UNCHANGED <<caller, params, config, attempt, lastError, thrown, cache, fcall, ctlVars>>

\* a write that keeps the entry another call stored first
generateText_CacheSet_IfAbsent(c) ==
  /\ pc[c] = "storing"
  /\ LET cacheKey == WriteKey(Destructure(params[c]))
         ttl == cacheTTL(result[c].usage.totalTokens)
     IN /\ cache' = IF CacheHas(cacheKey) THEN cache
                    ELSE CacheSet(cacheKey, JsonStringify(result[c]), ttl)
        /\ log' = [log EXCEPT ![c] =
             Append(@, [type |-> "set", key |-> cacheKey, ttl |-> ttl])]
  /\ pc' = [pc EXCEPT ![c] = "returned"]
  /\ UNCHANGED <<caller, params, config, attempt, lastError, result, thrown, fcall, ctlVars>>

\* `await cache.set(cacheKey, JSON.stringify(responseData), cacheTTL)` answers
generateText_CacheSet(c) ==
  /\ pc[c] = "storing"
  /\ LET cacheKey == WriteKey(Destructure(params[c]))
         ttl == cacheTTL(result[c].usage.totalTokens)
     IN /\ cache' = CacheSet(cacheKey, JsonStringify(result[c]), ttl)
        /\ log' = [log EXCEPT ![c] =
             Append(@, [type |-> "set", key |-> cacheKey, ttl |-> ttl])]
  /\ pc' = [pc EXCEPT ![c] = "returned"]
  /\ UNCHANGED <<caller, params, config, attempt, lastError, result, thrown, fcall, ctlVars>>

(***************************************************************************)
(* editText: the same shape as generateText over the same cache store,     *)
(* with keys under "openai:edit:" and a fixed TTL.                         *)
(***************************************************************************)
\* requests of editText: text "abc", instruction "fix"
EditParams ==
  {[text |-> <<97, 98, 99>>, instruction |-> <<102, 105, 120>>]}

editText_Call(c, p) ==
  /\ pc[c] = "idle"
  /\ IF c = 1 THEN TRUE ELSE pc[c - 1] # "idle"
  /\ caller' = [caller EXCEPT ![c] = "editText"]
  /\ params' = [params EXCEPT ![c] = p]
  /\ config' = [config EXCEPT ![c] = MergeConfig(<<>>)]
  /\ attempt' = [attempt EXCEPT ![c] = 0]
  /\ IF EditDestructure(p).useCaching
       THEN /\ pc' = [pc EXCEPT ![c] = "editLookup"]
            /\ UNCHANGED log
       ELSE /\ pc' = [pc EXCEPT ![c] = "racing"]
            /\ log' = [log EXCEPT ![c] = <<OpEvent(0)>>]
  /\ UNCHANGED <<lastError, result, thrown, cache, fcall, ctlVars>>

\* `await cache.get(cacheKey)` answers
editText_CacheGet(c) ==
  /\ pc[c] = "editLookup"
  /\ LET cacheKey == EditKey(EditDestructure(params[c])) IN
       IF CacheHas(cacheKey)
         THEN /\ result' = [result EXCEPT ![c] = JsonParse(CacheGet(cacheKey))]
              /\ log' = [log EXCEPT ![c] =
                   Append(@, [type |-> "get", key |-> cacheKey, hit |-> TRUE])]
              /\ pc' = [pc EXCEPT ![c] = "returned"]
         ELSE /\ log' = [log EXCEPT ![c] =
                   @ \o <<[type |-> "get", key |-> cacheKey, hit |-> FALSE],
                          OpEvent(0)>>]
              /\ pc' = [pc EXCEPT ![c] = "racing"]
              /\ UNCHANGED result
  /\ UNCHANGED <<caller, params, config, attempt, lastError, thrown, cache, fcall, ctlVars>>

\* `await cache.set(cacheKey, JSON.stringify(responseData), 60 * 60 * 12)` answers
editText_CacheSet(c) ==
  /\ pc[c] = "editStoring"
  /\ LET cacheKey == EditKey(EditDestructure(params[c]))
     IN /\ cache' = CacheSet(cacheKey, JsonStringify(result[c]), EditCacheTTL)
        /\ log' = [log EXCEPT ![c] =
             Append(@, [type |-> "set", key |-> cacheKey, ttl |-> EditCacheTTL])]
  /\ pc' = [pc EXCEPT ![c] = "returned"]
  /\ UNCHANGED <<caller, params, config, attempt, lastError, result, thrown, fcall, ctlVars>>

(***************************************************************************)
(* Abandoned operations.  When the timeout promise wins Promise.race the   *)
(* promise of operation() stays pending: nothing cancels it.  It settles   *)
(* later, at any time, into a race that is already settled.  The attempt   *)
(* an event of the log belongs to is that of the last operation call       *)
(* before it.                                                              *)
(***************************************************************************)
\* the attempts whose race the timeout won
Abandoned(c) ==
  {log[c][CHOOSE j \in DOMAIN log[c] :
            /\ j < i /\ log[c][j].type = "op"
            /\ \A k \in DOMAIN log[c] :
                 (k < i /\ log[c][k].type = "op") => k <= j].attempt :
     i \in {n \in DOMAIN log[c] : log[c][n].type = "fail" /\ log[c][n].timedOut}}

\* the abandoned attempts whose operation has settled since
SettledLate(c) ==
  {log[c][i].attempt : i \in {n \in DOMAIN log[c] : log[c][n].type = "late"}}

\* the invocations of the operation that are pending
InFlight(c) ==
  (Abandoned(c) \ SettledLate(c))
    \cup (IF pc[c] = "racing" THEN {attempt[c]} ELSE {})

\* what an abandoned operation rejects with
LateErrors == {MkError("request failed", "none", 503, "noerr")}

\* what an abandoned operation resolves with
LateResponses ==
  {[content |-> "Hello", prompt_tokens |-> Undef, completion_tokens |-> 95,
    total_tokens |-> 100, model |-> "gpt-4-0613"]}

\* options objects of the calls whose abandoned operations are followed
LateOptions ==
  {<<>>} \cup {[maxRetries |-> m, retryDelay |-> 0] : m \in {0, LateRetriesBound}}

\* a late result that the waiting loop takes for its own
LateResolves_Adopted(c, k, r) ==
  /\ k \in Abandoned(c) \ SettledLate(c)
  /\ log' = [log EXCEPT ![c] =
       Append(@, [type |-> "late", attempt |-> k, resolved |-> TRUE, value |-> r])]
  /\ IF pc[c] \in {"racing", "backoff"}
       THEN /\ result' = [result EXCEPT ![c] = r]
            /\ pc' = [pc EXCEPT ![c] = "returned"]
       ELSE UNCHANGED <<pc, result>>
  /\ UNCHANGED <<caller, params, config, attempt, lastError, thrown, cache,
                 fcall, ctlVars>>

\* the operation of abandoned attempt k resolves: its race is settled
LateResolves(c, k, r) ==
  /\ k \in Abandoned(c) \ SettledLate(c)
  /\ log' = [log EXCEPT ![c] =
       Append(@, [type |-> "late", attempt |-> k, resolved |-> TRUE, value |-> r])]
  /\ UNCHANGED <<pc, caller, params, config, attempt, lastError, result, thrown,
                 cache, fcall, ctlVars>>

\* the operation of abandoned attempt k rejects: its race is settled
LateRejects(c, k, error) ==
  /\ k \in Abandoned(c) \ SettledLate(c)
  /\ log' = [log EXCEPT ![c] =
       Append(@, [type |-> "late", attempt |-> k, resolved |-> FALSE, value |-> error])]
  /\ UNCHANGED <<pc, caller, params, config, attempt, lastError, result, thrown,
                 cache, fcall, ctlVars>>

(***************************************************************************)
(* generateText over a cache store that is unavailable: cache.get or       *)
(* cache.set rejects.  The read is awaited before the try block, the write *)
(* inside it.                                                              *)
(***************************************************************************)
\* the rejection of the cache store
CacheError == MkError("cache unavailable", "none", 0, "nodata")

\* `await cache.get(cacheKey)` rejects: generateText rejects with it
generateText_CacheGetRejects(c) ==
  /\ pc[c] = "lookup"
  /\ log' = [log EXCEPT ![c] =
       Append(@, [type |-> "getfail", key |-> LookupKey(Destructure(params[c]))])]
  /\ thrown' = [thrown EXCEPT ![c] = CacheError]
  /\ pc' = [pc EXCEPT ![c] = "thrown"]
  /\ UNCHANGED <<caller, params, config, attempt, lastError, result, cache, fcall,
                 ctlVars>>

\* `await cache.set(...)` rejects inside the try: the catch block logs and
\* rethrows, the result is dropped
generateText_CacheSetRejects(c) ==
  /\ pc[c] = "storing"
  /\ log' = [log EXCEPT ![c] =
       Append(@, [type |-> "setfail", key |-> WriteKey(Destructure(params[c]))])]
  /\ thrown' = [thrown EXCEPT ![c] = Rethrow(CacheError)]
  /\ pc' = [pc EXCEPT ![c] = "thrown"]
  /\ UNCHANGED <<caller, params, config, attempt, lastError, result, cache, fcall,
                 ctlVars>>

(***************************************************************************)
(* The text-generation controller (controllers/textGeneration): the        *)
(* handlers generateText and batchGenerate.  Model names are sequences of  *)
(* UTF-16 code units, as prompts are, so that toLowerCase is computed.     *)
(* toLowerCase can change the length of a name.                            *)
(***************************************************************************)
\* 'gpt-4'
Name_gpt4 == <<103, 112, 116, 45, 52>>
\* 'gpt-3.5-turbo'
Name_gpt35turbo == <<103, 112, 116, 45, 51, 46, 53, 45, 116, 117, 114, 98, 111>>
\* 'palm'
Name_palm == <<112, 97, 108, 109>>
\* 'gemini'
Name_gemini == <<103, 101, 109, 105, 110, 105>>
\* 'claude'
Name_claude == <<99, 108, 97, 117, 100, 101>>
\* 'claude-instant'
Name_claudeInstant == <<99, 108, 97, 117, 100, 101, 45, 105, 110, 115, 116, 97, 110, 116>>
\* 'local-llama'
Name_localLlama == <<108, 111, 99, 97, 108, 45, 108, 108, 97, 109, 97>>
\* 'local-mistral'
Name_localMistral == <<108, 111, 99, 97, 108, 45, 109, 105, 115, 116, 114, 97, 108>>

\* 'GPT-4', 'Claude-Instant' and 'mystery', names of requests
Name_GPT4 == <<71, 80, 84, 45, 52>>
Name_ClaudeInstant ==
  <<67, 108, 97, 117, 100, 101, 45, 73, 110, 115, 116, 97, 110, 116>>
Name_mystery == <<109, 121, 115, 116, 101, 114, 121>>

\* 'GEM\u0130N\u0130': capital I with dot above, twice
Name_GEMINIDotted == <<71, 69, 77, 304, 78, 304>>

(***************************************************************************)
(* String.prototype.toLowerCase, by the Unicode default case conversion    *)
(* (character data of Unicode 17.0): the string is read as code points (a  *)
(* high surrogate followed by a low surrogate is one), each code point is  *)
(* replaced by its lower-case mapping, U+0130 by U+0069 U+0307, and U+03A3 *)
(* by U+03C2 in final position (after a cased letter and not before one,   *)
(* case-ignorable characters skipped) and by U+03C3 elsewhere.             *)
(***************************************************************************)
\* <<first, last, step, delta>>: the code points first, first + step, ...,
\* last lower to themselves plus delta
LowerRanges ==
  {<<65, 90, 1, 32>>, <<192, 214, 1, 32>>, <<216, 222, 1, 32>>,
   <<256, 302, 2, 1>>, <<306, 310, 2, 1>>, <<313, 327, 2, 1>>,
   <<330, 374, 2, 1>>, <<376, 376, 1, -121>>, <<377, 381, 2, 1>>,
   <<385, 385, 1, 210>>, <<386, 388, 2, 1>>, <<390, 390, 1, 206>>,
   <<391, 391, 1, 1>>, <<393, 394, 1, 205>>, <<395, 395, 1, 1>>,
   <<398, 398, 1, 79>>, <<399, 399, 1, 202>>, <<400, 400, 1, 203>>,
   <<401, 401, 1, 1>>, <<403, 403, 1, 205>>, <<404, 404, 1, 207>>,
   <<406, 406, 1, 211>>, <<407, 407, 1, 209>>, <<408, 408, 1, 1>>,
   <<412, 412, 1, 211>>, <<413, 413, 1, 213>>, <<415, 415, 1, 214>>,
   <<416, 420, 2, 1>>, <<422, 422, 1, 218>>, <<423, 423, 1, 1>>,
   <<425, 425, 1, 218>>, <<428, 428, 1, 1>>, <<430, 430, 1, 218>>,
   <<431, 431, 1, 1>>, <<433, 434, 1, 217>>, <<435, 437, 2, 1>>,
   <<439, 439, 1, 219>>, <<440, 440, 1, 1>>, <<444, 444, 1, 1>>,
   <<452, 452, 1, 2>>, <<453, 453, 1, 1>>, <<455, 455, 1, 2>>,
   <<456, 456, 1, 1>>, <<458, 458, 1, 2>>, <<459, 475, 2, 1>>,
   <<478, 494, 2, 1>>, <<497, 497, 1, 2>>, <<498, 500, 2, 1>>,
   <<502, 502, 1, -97>>, <<503, 503, 1, -56>>, <<504, 542, 2, 1>>,
   <<544, 544, 1, -130>>, <<546, 562, 2, 1>>, <<570, 570, 1, 10795>>,
   <<571, 571, 1, 1>>, <<573, 573, 1, -163>>, <<574, 574, 1, 10792>>,
   <<577, 577, 1, 1>>, <<579, 579, 1, -195>>, <<580, 580, 1, 69>>,
   <<581, 581, 1, 71>>, <<582, 590, 2, 1>>, <<880, 882, 2, 1>>,
   <<886, 886, 1, 1>>, <<895, 895, 1, 116>>, <<902, 902, 1, 38>>,
   <<904, 906, 1, 37>>, <<908, 908, 1, 64>>, <<910, 911, 1, 63>>,
   <<913, 929, 1, 32>>, <<932, 939, 1, 32>>, <<975, 975, 1, 8>>,
   <<984, 1006, 2, 1>>, <<1012, 1012, 1, -60>>, <<1015, 1015, 1, 1>>,
   <<1017, 1017, 1, -7>>, <<1018, 1018, 1, 1>>, <<1021, 1023, 1, -130>>,
   <<1024, 1039, 1, 80>>, <<1040, 1071, 1, 32>>, <<1120, 1152, 2, 1>>,
   <<1162, 1214, 2, 1>>, <<1216, 1216, 1, 15>>, <<1217, 1229, 2, 1>>,
   <<1232, 1326, 2, 1>>, <<1329, 1366, 1, 48>>, <<4256, 4293, 1, 7264>>,
   <<4295, 4295, 1, 7264>>, <<4301, 4301, 1, 7264>>, <<5024, 5103, 1, 38864>>,
   <<5104, 5109, 1, 8>>, <<7305, 7305, 1, 1>>, <<7312, 7354, 1, -3008>>,
   <<7357, 7359, 1, -3008>>, <<7680, 7828, 2, 1>>, <<7838, 7838, 1, -7615>>,
   <<7840, 7934, 2, 1>>, <<7944, 7951, 1, -8>>, <<7960, 7965, 1, -8>>,
   <<7976, 7983, 1, -8>>, <<7992, 7999, 1, -8>>, <<8008, 8013, 1, -8>>,
   <<8025, 8031, 2, -8>>, <<8040, 8047, 1, -8>>, <<8072, 8079, 1, -8>>,
   <<8088, 8095, 1, -8>>, <<8104, 8111, 1, -8>>, <<8120, 8121, 1, -8>>,
   <<8122, 8123, 1, -74>>, <<8124, 8124, 1, -9>>, <<8136, 8139, 1, -86>>,
   <<8140, 8140, 1, -9>>, <<8152, 8153, 1, -8>>, <<8154, 8155, 1, -100>>,
   <<8168, 8169, 1, -8>>, <<8170, 8171, 1, -112>>, <<8172, 8172, 1, -7>>,
   <<8184, 8185, 1, -128>>, <<8186, 8187, 1, -126>>, <<8188, 8188, 1, -9>>,
   <<8486, 8486, 1, -7517>>, <<8490, 8490, 1, -8383>>,
   <<8491, 8491, 1, -8262>>, <<8498, 8498, 1, 28>>, <<8544, 8559, 1, 16>>,
   <<8579, 8579, 1, 1>>, <<9398, 9423, 1, 26>>, <<11264, 11311, 1, 48>>,
   <<11360, 11360, 1, 1>>, <<11362, 11362, 1, -10743>>,
   <<11363, 11363, 1, -3814>>, <<11364, 11364, 1, -10727>>,
   <<11367, 11371, 2, 1>>, <<11373, 11373, 1, -10780>>,
   <<11374, 11374, 1, -10749>>, <<11375, 11375, 1, -10783>>,
   <<11376, 11376, 1, -10782>>, <<11378, 11378, 1, 1>>,
   <<11381, 11381, 1, 1>>, <<11390, 11391, 1, -10815>>,
   <<11392, 11490, 2, 1>>, <<11499, 11501, 2, 1>>, <<11506, 11506, 1, 1>>,
   <<42560, 42604, 2, 1>>, <<42624, 42650, 2, 1>>, <<42786, 42798, 2, 1>>,
   <<42802, 42862, 2, 1>>, <<42873, 42875, 2, 1>>,
   <<42877, 42877, 1, -35332>>, <<42878, 42886, 2, 1>>,
   <<42891, 42891, 1, 1>>, <<42893, 42893, 1, -42280>>,
   <<42896, 42898, 2, 1>>, <<42902, 42920, 2, 1>>,
   <<42922, 42922, 1, -42308>>, <<42923, 42923, 1, -42319>>,
   <<42924, 42924, 1, -42315>>, <<42925, 42925, 1, -42305>>,
   <<42926, 42926, 1, -42308>>, <<42928, 42928, 1, -42258>>,
   <<42929, 42929, 1, -42282>>, <<42930, 42930, 1, -42261>>,
   <<42931, 42931, 1, 928>>, <<42932, 42946, 2, 1>>, <<42948, 42948, 1, -48>>,
   <<42949, 42949, 1, -42307>>, <<42950, 42950, 1, -35384>>,
   <<42951, 42953, 2, 1>>, <<42955, 42955, 1, -42343>>,
   <<42956, 42970, 2, 1>>, <<42972, 42972, 1, -42561>>,
   <<42997, 42997, 1, 1>>, <<65313, 65338, 1, 32>>, <<66560, 66599, 1, 40>>,
   <<66736, 66771, 1, 40>>, <<66928, 66938, 1, 39>>, <<66940, 66954, 1, 39>>,
   <<66956, 66962, 1, 39>>, <<66964, 66965, 1, 39>>, <<68736, 68786, 1, 64>>,
   <<68944, 68965, 1, 32>>, <<71840, 71871, 1, 32>>, <<93760, 93791, 1, 32>>,
   <<93856, 93880, 1, 27>>, <<125184, 125217, 1, 34>>}

\* <<first, last>>: the cased code points that are not case-ignorable
CasedRanges ==
  {<<65, 90>>, <<97, 122>>, <<170, 170>>, <<181, 181>>, <<186, 186>>,
   <<192, 214>>, <<216, 246>>, <<248, 442>>, <<444, 447>>, <<452, 659>>,
   <<662, 687>>, <<880, 883>>, <<886, 887>>, <<891, 893>>, <<895, 895>>,
   <<902, 902>>, <<904, 906>>, <<908, 908>>, <<910, 929>>, <<931, 1013>>,
   <<1015, 1153>>, <<1162, 1327>>, <<1329, 1366>>, <<1376, 1416>>,
   <<4256, 4293>>, <<4295, 4295>>, <<4301, 4301>>, <<4304, 4346>>,
   <<4349, 4351>>, <<5024, 5109>>, <<5112, 5117>>, <<7296, 7306>>,
   <<7312, 7354>>, <<7357, 7359>>, <<7424, 7467>>, <<7531, 7543>>,
   <<7545, 7578>>, <<7680, 7957>>, <<7960, 7965>>, <<7968, 8005>>,
   <<8008, 8013>>, <<8016, 8023>>, <<8025, 8025>>, <<8027, 8027>>,
   <<8029, 8029>>, <<8031, 8061>>, <<8064, 8116>>, <<8118, 8124>>,
   <<8126, 8126>>, <<8130, 8132>>, <<8134, 8140>>, <<8144, 8147>>,
   <<8150, 8155>>, <<8160, 8172>>, <<8178, 8180>>, <<8182, 8188>>,
   <<8450, 8450>>, <<8455, 8455>>, <<8458, 8467>>, <<8469, 8469>>,
   <<8473, 8477>>, <<8484, 8484>>, <<8486, 8486>>, <<8488, 8488>>,
   <<8490, 8493>>, <<8495, 8500>>, <<8505, 8505>>, <<8508, 8511>>,
   <<8517, 8521>>, <<8526, 8526>>, <<8544, 8575>>, <<8579, 8580>>,
   <<9398, 9449>>, <<11264, 11387>>, <<11390, 11492>>, <<11499, 11502>>,
   <<11506, 11507>>, <<11520, 11557>>, <<11559, 11559>>, <<11565, 11565>>,
   <<42560, 42605>>, <<42624, 42651>>, <<42786, 42863>>, <<42865, 42887>>,
   <<42891, 42894>>, <<42896, 42972>>, <<42997, 42998>>, <<43002, 43002>>,
   <<43824, 43866>>, <<43872, 43880>>, <<43888, 43967>>, <<64256, 64262>>,
   <<64275, 64279>>, <<65313, 65338>>, <<65345, 65370>>, <<66560, 66639>>,
   <<66736, 66771>>, <<66776, 66811>>, <<66928, 66938>>, <<66940, 66954>>,
   <<66956, 66962>>, <<66964, 66965>>, <<66967, 66977>>, <<66979, 66993>>,
   <<66995, 67001>>, <<67003, 67004>>, <<68736, 68786>>, <<68800, 68850>>,
   <<68944, 68965>>, <<68976, 68997>>, <<71840, 71903>>, <<93760, 93823>>,
   <<93856, 93880>>, <<93883, 93907>>, <<119808, 119892>>, <<119894, 119964>>,
   <<119966, 119967>>, <<119970, 119970>>, <<119973, 119974>>,
   <<119977, 119980>>, <<119982, 119993>>, <<119995, 119995>>,
   <<119997, 120003>>, <<120005, 120069>>, <<120071, 120074>>,
   <<120077, 120084>>, <<120086, 120092>>, <<120094, 120121>>,
   <<120123, 120126>>, <<120128, 120132>>, <<120134, 120134>>,
   <<120138, 120144>>, <<120146, 120485>>, <<120488, 120512>>,
   <<120514, 120538>>, <<120540, 120570>>, <<120572, 120596>>,
   <<120598, 120628>>, <<120630, 120654>>, <<120656, 120686>>,
   <<120688, 120712>>, <<120714, 120744>>, <<120746, 120770>>,
   <<120772, 120779>>, <<122624, 122633>>, <<122635, 122654>>,
   <<122661, 122666>>, <<125184, 125251>>, <<127280, 127305>>,
   <<127312, 127337>>, <<127344, 127369>>}

\* <<first, last>>: the case-ignorable code points
CaseIgnorableRanges ==
  {<<39, 39>>, <<46, 46>>, <<58, 58>>, <<94, 94>>, <<96, 96>>, <<168, 168>>,
   <<173, 173>>, <<175, 175>>, <<180, 180>>, <<183, 184>>, <<688, 879>>,
   <<884, 885>>, <<890, 890>>, <<900, 901>>, <<903, 903>>, <<1155, 1161>>,
   <<1369, 1369>>, <<1375, 1375>>, <<1425, 1469>>, <<1471, 1471>>,
   <<1473, 1474>>, <<1476, 1477>>, <<1479, 1479>>, <<1524, 1524>>,
   <<1536, 1541>>, <<1552, 1562>>, <<1564, 1564>>, <<1600, 1600>>,
   <<1611, 1631>>, <<1648, 1648>>, <<1750, 1757>>, <<1759, 1768>>,
   <<1770, 1773>>, <<1807, 1807>>, <<1809, 1809>>, <<1840, 1866>>,
   <<1958, 1968>>, <<2027, 2037>>, <<2042, 2042>>, <<2045, 2045>>,
   <<2070, 2093>>, <<2137, 2139>>, <<2184, 2184>>, <<2192, 2193>>,
   <<2199, 2207>>, <<2249, 2306>>, <<2362, 2362>>, <<2364, 2364>>,
   <<2369, 2376>>, <<2381, 2381>>, <<2385, 2391>>, <<2402, 2403>>,
   <<2417, 2417>>, <<2433, 2433>>, <<2492, 2492>>, <<2497, 2500>>,
   <<2509, 2509>>, <<2530, 2531>>, <<2558, 2558>>, <<2561, 2562>>,
   <<2620, 2620>>, <<2625, 2626>>, <<2631, 2632>>, <<2635, 2637>>,
   <<2641, 2641>>, <<2672, 2673>>, <<2677, 2677>>, <<2689, 2690>>,
   <<2748, 2748>>, <<2753, 2757>>, <<2759, 2760>>, <<2765, 2765>>,
   <<2786, 2787>>, <<2810, 2815>>, <<2817, 2817>>, <<2876, 2876>>,
   <<2879, 2879>>, <<2881, 2884>>, <<2893, 2893>>, <<2901, 2902>>,
   <<2914, 2915>>, <<2946, 2946>>, <<3008, 3008>>, <<3021, 3021>>,
   <<3072, 3072>>, <<3076, 3076>>, <<3132, 3132>>, <<3134, 3136>>,
   <<3142, 3144>>, <<3146, 3149>>, <<3157, 3158>>, <<3170, 3171>>,
   <<3201, 3201>>, <<3260, 3260>>, <<3263, 3263>>, <<3270, 3270>>,
   <<3276, 3277>>, <<3298, 3299>>, <<3328, 3329>>, <<3387, 3388>>,
   <<3393, 3396>>, <<3405, 3405>>, <<3426, 3427>>, <<3457, 3457>>,
   <<3530, 3530>>, <<3538, 3540>>, <<3542, 3542>>, <<3633, 3633>>,
   <<3636, 3642>>, <<3654, 3662>>, <<3761, 3761>>, <<3764, 3772>>,
   <<3782, 3782>>, <<3784, 3790>>, <<3864, 3865>>, <<3893, 3893>>,
   <<3895, 3895>>, <<3897, 3897>>, <<3953, 3966>>, <<3968, 3972>>,
   <<3974, 3975>>, <<3981, 3991>>, <<3993, 4028>>, <<4038, 4038>>,
   <<4141, 4144>>, <<4146, 4151>>, <<4153, 4154>>, <<4157, 4158>>,
   <<4184, 4185>>, <<4190, 4192>>, <<4209, 4212>>, <<4226, 4226>>,
   <<4229, 4230>>, <<4237, 4237>>, <<4253, 4253>>, <<4348, 4348>>,
   <<4957, 4959>>, <<5906, 5908>>, <<5938, 5939>>, <<5970, 5971>>,
   <<6002, 6003>>, <<6068, 6069>>, <<6071, 6077>>, <<6086, 6086>>,
   <<6089, 6099>>, <<6103, 6103>>, <<6109, 6109>>, <<6155, 6159>>,
   <<6211, 6211>>, <<6277, 6278>>, <<6313, 6313>>, <<6432, 6434>>,
   <<6439, 6440>>, <<6450, 6450>>, <<6457, 6459>>, <<6679, 6680>>,
   <<6683, 6683>>, <<6742, 6742>>, <<6744, 6750>>, <<6752, 6752>>,
   <<6754, 6754>>, <<6757, 6764>>, <<6771, 6780>>, <<6783, 6783>>,
   <<6823, 6823>>, <<6832, 6877>>, <<6880, 6891>>, <<6912, 6915>>,
   <<6964, 6964>>, <<6966, 6970>>, <<6972, 6972>>, <<6978, 6978>>,
   <<7019, 7027>>, <<7040, 7041>>, <<7074, 7077>>, <<7080, 7081>>,
   <<7083, 7085>>, <<7142, 7142>>, <<7144, 7145>>, <<7149, 7149>>,
   <<7151, 7153>>, <<7212, 7219>>, <<7222, 7223>>, <<7288, 7293>>,
   <<7376, 7378>>, <<7380, 7392>>, <<7394, 7400>>, <<7405, 7405>>,
   <<7412, 7412>>, <<7416, 7417>>, <<7468, 7530>>, <<7544, 7544>>,
   <<7579, 7679>>, <<8125, 8125>>, <<8127, 8129>>, <<8141, 8143>>,
   <<8157, 8159>>, <<8173, 8175>>, <<8189, 8190>>, <<8203, 8207>>,
   <<8216, 8217>>, <<8228, 8228>>, <<8231, 8231>>, <<8234, 8238>>,
   <<8288, 8292>>, <<8294, 8303>>, <<8305, 8305>>, <<8319, 8319>>,
   <<8336, 8348>>, <<8400, 8432>>, <<11388, 11389>>, <<11503, 11505>>,
   <<11631, 11631>>, <<11647, 11647>>, <<11744, 11775>>, <<11823, 11823>>,
   <<12293, 12293>>, <<12330, 12333>>, <<12337, 12341>>, <<12347, 12347>>,
   <<12441, 12446>>, <<12540, 12542>>, <<40981, 40981>>, <<42232, 42237>>,
   <<42508, 42508>>, <<42607, 42610>>, <<42612, 42621>>, <<42623, 42623>>,
   <<42652, 42655>>, <<42736, 42737>>, <<42752, 42785>>, <<42864, 42864>>,
   <<42888, 42890>>, <<42993, 42996>>, <<43000, 43001>>, <<43010, 43010>>,
   <<43014, 43014>>, <<43019, 43019>>, <<43045, 43046>>, <<43052, 43052>>,
   <<43204, 43205>>, <<43232, 43249>>, <<43263, 43263>>, <<43302, 43309>>,
   <<43335, 43345>>, <<43392, 43394>>, <<43443, 43443>>, <<43446, 43449>>,
   <<43452, 43453>>, <<43471, 43471>>, <<43493, 43494>>, <<43561, 43566>>,
   <<43569, 43570>>, <<43573, 43574>>, <<43587, 43587>>, <<43596, 43596>>,
   <<43632, 43632>>, <<43644, 43644>>, <<43696, 43696>>, <<43698, 43700>>,
   <<43703, 43704>>, <<43710, 43711>>, <<43713, 43713>>, <<43741, 43741>>,
   <<43756, 43757>>, <<43763, 43764>>, <<43766, 43766>>, <<43867, 43871>>,
   <<43881, 43883>>, <<44005, 44005>>, <<44008, 44008>>, <<44013, 44013>>,
   <<64286, 64286>>, <<64434, 64450>>, <<65024, 65039>>, <<65043, 65043>>,
   <<65056, 65071>>, <<65106, 65106>>, <<65109, 65109>>, <<65279, 65279>>,
   <<65287, 65287>>, <<65294, 65294>>, <<65306, 65306>>, <<65342, 65342>>,
   <<65344, 65344>>, <<65392, 65392>>, <<65438, 65439>>, <<65507, 65507>>,
   <<65529, 65531>>, <<66045, 66045>>, <<66272, 66272>>, <<66422, 66426>>,
   <<67456, 67461>>, <<67463, 67504>>, <<67506, 67514>>, <<68097, 68099>>,
   <<68101, 68102>>, <<68108, 68111>>, <<68152, 68154>>, <<68159, 68159>>,
   <<68325, 68326>>, <<68900, 68903>>, <<68942, 68942>>, <<68969, 68973>>,
   <<68975, 68975>>, <<69291, 69292>>, <<69317, 69317>>, <<69370, 69375>>,
   <<69446, 69456>>, <<69506, 69509>>, <<69633, 69633>>, <<69688, 69702>>,
   <<69744, 69744>>, <<69747, 69748>>, <<69759, 69761>>, <<69811, 69814>>,
   <<69817, 69818>>, <<69821, 69821>>, <<69826, 69826>>, <<69837, 69837>>,
   <<69888, 69890>>, <<69927, 69931>>, <<69933, 69940>>, <<70003, 70003>>,
   <<70016, 70017>>, <<70070, 70078>>, <<70089, 70092>>, <<70095, 70095>>,
   <<70191, 70193>>, <<70196, 70196>>, <<70198, 70199>>, <<70206, 70206>>,
   <<70209, 70209>>, <<70367, 70367>>, <<70371, 70378>>, <<70400, 70401>>,
   <<70459, 70460>>, <<70464, 70464>>, <<70502, 70508>>, <<70512, 70516>>,
   <<70587, 70592>>, <<70606, 70606>>, <<70608, 70608>>, <<70610, 70610>>,
   <<70625, 70626>>, <<70712, 70719>>, <<70722, 70724>>, <<70726, 70726>>,
   <<70750, 70750>>, <<70835, 70840>>, <<70842, 70842>>, <<70847, 70848>>,
   <<70850, 70851>>, <<71090, 71093>>, <<71100, 71101>>, <<71103, 71104>>,
   <<71132, 71133>>, <<71219, 71226>>, <<71229, 71229>>, <<71231, 71232>>,
   <<71339, 71339>>, <<71341, 71341>>, <<71344, 71349>>, <<71351, 71351>>,
   <<71453, 71453>>, <<71455, 71455>>, <<71458, 71461>>, <<71463, 71467>>,
   <<71727, 71735>>, <<71737, 71738>>, <<71995, 71996>>, <<71998, 71998>>,
   <<72003, 72003>>, <<72148, 72151>>, <<72154, 72155>>, <<72160, 72160>>,
   <<72193, 72202>>, <<72243, 72248>>, <<72251, 72254>>, <<72263, 72263>>,
   <<72273, 72278>>, <<72281, 72283>>, <<72330, 72342>>, <<72344, 72345>>,
   <<72544, 72544>>, <<72546, 72548>>, <<72550, 72550>>, <<72752, 72758>>,
   <<72760, 72765>>, <<72767, 72767>>, <<72850, 72871>>, <<72874, 72880>>,
   <<72882, 72883>>, <<72885, 72886>>, <<73009, 73014>>, <<73018, 73018>>,
   <<73020, 73021>>, <<73023, 73029>>, <<73031, 73031>>, <<73104, 73105>>,
   <<73109, 73109>>, <<73111, 73111>>, <<73177, 73177>>, <<73459, 73460>>,
   <<73472, 73473>>, <<73526, 73530>>, <<73536, 73536>>, <<73538, 73538>>,
   <<73562, 73562>>, <<78896, 78912>>, <<78919, 78933>>, <<90398, 90409>>,
   <<90413, 90415>>, <<92912, 92916>>, <<92976, 92982>>, <<92992, 92995>>,
   <<93504, 93506>>, <<93547, 93548>>, <<94031, 94031>>, <<94095, 94111>>,
   <<94176, 94177>>, <<94179, 94180>>, <<94194, 94195>>, <<110576, 110579>>,
   <<110581, 110587>>, <<110589, 110590>>, <<113821, 113822>>,
   <<113824, 113827>>, <<118528, 118573>>, <<118576, 118598>>,
   <<119143, 119145>>, <<119155, 119170>>, <<119173, 119179>>,
   <<119210, 119213>>, <<119362, 119364>>, <<121344, 121398>>,
   <<121403, 121452>>, <<121461, 121461>>, <<121476, 121476>>,
   <<121499, 121503>>, <<121505, 121519>>, <<122880, 122886>>,
   <<122888, 122904>>, <<122907, 122913>>, <<122915, 122916>>,
   <<122918, 122922>>, <<122928, 122989>>, <<123023, 123023>>,
   <<123184, 123197>>, <<123566, 123566>>, <<123628, 123631>>,
   <<124139, 124143>>, <<124398, 124399>>, <<124643, 124643>>,
   <<124646, 124646>>, <<124654, 124655>>, <<124661, 124661>>,
   <<124671, 124671>>, <<125136, 125142>>, <<125252, 125259>>,
   <<127995, 127999>>, <<917505, 917505>>, <<917536, 917631>>,
   <<917760, 917999>>}

\* the code points of a sequence of UTF-16 code units
RECURSIVE ToCodePoints(_)
ToCodePoints(s) ==
  IF s = <<>> THEN <<>>
  ELSE IF Len(s) >= 2 /\ s[1] \in 55296 .. 56319 /\ s[2] \in 56320 .. 57343
    THEN <<65536 + (s[1] - 55296) * 1024 + (s[2] - 56320)>>
         \o ToCodePoints(SubSeq(s, 3, Len(s)))
  ELSE <<Head(s)>> \o ToCodePoints(Tail(s))

\* the sigma at position i of cps is in final position
FinalSigma(cps, i) ==
  LET IsCased(cp) ==
        cp >= 65 /\ \E r \in CasedRanges : r[1] <= cp /\ cp <= r[2]
      IsCaseIgnorable(cp) ==
        cp >= 39 /\ \E r \in CaseIgnorableRanges : r[1] <= cp /\ cp <= r[2]
      before == {j \in 1 .. i - 1 : ~IsCaseIgnorable(cps[j])}
      after == {j \in i + 1 .. Len(cps) : ~IsCaseIgnorable(cps[j])}
  IN /\ before # {}
     /\ IsCased(cps[CHOOSE j \in before : \A k \in before : k <= j])
     /\ \/ after = {}
        \/ ~IsCased(cps[CHOOSE j \in after : \A k \in after : j <= k])

\* the lower case of the code point at position i of cps, as code units
LowerOfPoint(cps, i) ==
  LET cp == cps[i]
      R == {r \in LowerRanges :
              r[1] <= cp /\ cp <= r[2] /\ (cp - r[1]) % r[3] = 0}
      lower == IF cp < 65 \/ R = {} THEN cp ELSE cp + (CHOOSE r \in R : TRUE)[4]
  IN IF cp = 304 THEN <<105, 775>>
     ELSE IF cp = 931 THEN <<IF FinalSigma(cps, i) THEN 962 ELSE 963>>
     ELSE IF lower < 65536 THEN <<lower>>
     ELSE <<55296 + ((lower - 65536) \div 1024),
            56320 + ((lower - 65536) % 1024)>>

RECURSIVE LowerFrom(_, _)
LowerFrom(cps, i) ==
  IF i > Len(cps) THEN <<>> ELSE LowerOfPoint(cps, i) \o LowerFrom(cps, i + 1)

\* String.prototype.toLowerCase
ToLowerCase(s) == LowerFrom(ToCodePoints(s), 1)

\* the selection that has no default branch
SelectService_NoDefault(model) ==
  LET m == ToLowerCase(model) IN
    IF m \in {Name_gpt4, Name_gpt35turbo} THEN "openaiService"
    ELSE IF m \in {Name_palm, Name_gemini} THEN "palmService"
    ELSE IF m \in {Name_claude, Name_claudeInstant} THEN "anthropicService"
    ELSE IF m \in {Name_localLlama, Name_localMistral} THEN "localLLMService"
    ELSE "undefined"

\* the switch of generateText over effectiveModel.toLowerCase()
SelectService(model) ==
  LET m == ToLowerCase(model) IN
    IF m \in {Name_gpt4, Name_gpt35turbo} THEN "openaiService"
    ELSE IF m \in {Name_palm, Name_gemini} THEN "palmService"
    ELSE IF m \in {Name_claude, Name_claudeInstant} THEN "anthropicService"
    ELSE IF m \in {Name_localLlama, Name_localMistral} THEN "localLLMService"
    ELSE "openaiService"

\* a batch selection that follows the switch of generateText
BatchSelectService_SameAsSingle(model) ==
  LET m == ToLowerCase(model) IN
    IF m \in {Name_gpt4, Name_gpt35turbo} THEN "openaiService"
    ELSE IF m \in {Name_palm, Name_gemini} THEN "palmService"
    ELSE IF m \in {Name_claude, Name_claudeInstant} THEN "anthropicService"
    ELSE IF m \in {Name_localLlama, Name_localMistral} THEN "localLLMService"
    ELSE "openaiService"

\* the switch of batchGenerate over model.toLowerCase()
BatchSelectService(model) ==
  LET m == ToLowerCase(model) IN
    IF m \in {Name_gpt4, Name_gpt35turbo} THEN "openaiService"
    ELSE "openaiService"

\* { ...base, ...over }
Spread(base, over) ==
  [k \in DOMAIN base \cup DOMAIN over |->
     IF k \in DOMAIN over THEN over[k] ELSE base[k]]

\* the truth value of a flag of the options object that may be missing
Flag(obj, k) == Get(obj, k, FALSE)

\* const { prompt, model = 'gpt-4', temperature = 0.7, maxTokens = 1000,
\*         systemPrompt, options = {} } = req.body
BodyModel(body) == Get(body, "model", Name_gpt4)
BodyTemperature(body) == Get(body, "temperature", DefaultTemperatureTenths)
BodyMaxTokens(body) == Get(body, "maxTokens", DefaultMaxTokens)
BodyOptions(body) == Get(body, "options", <<>>)

\* options.usePreferredModel && userPreference?.preferredModel
\*   ? userPreference.preferredModel : model
EffectiveModel(body, p) ==
  IF Flag(BodyOptions(body), "usePreferredModel")
     /\ Get(p, "preferredModel", <<>>) # <<>>
    THEN p.preferredModel
    ELSE BodyModel(body)

\* options.usePreferredSettings && userPreference?.defaultTemperature
\*   ? userPreference.defaultTemperature : temperature
EffectiveTemperature(body, p) ==
  IF Flag(BodyOptions(body), "usePreferredSettings")
     /\ Get(p, "defaultTemperature", 0) # 0
    THEN p.defaultTemperature
    ELSE BodyTemperature(body)

\* systemPrompt || userPreference?.defaultSystemPrompt || ''
EffectiveSystemPrompt(body, p) ==
  IF Get(body, "systemPrompt", <<>>) # <<>> THEN body.systemPrompt
  ELSE Get(p, "defaultSystemPrompt", <<>>)

\* req.user?.id || 'anonymous'
UserId(user) == IF user = "" THEN "anonymous" ELSE user

\* the argument of generationService.generateText
ServiceParams(body, user, p) ==
  Spread([prompt |-> body.prompt,
          systemPrompt |-> EffectiveSystemPrompt(body, p),
          temperature |-> EffectiveTemperature(body, p),
          maxTokens |-> BodyMaxTokens(body),
          userId |-> UserId(user),
          model |-> EffectiveModel(body, p)],
         BodyOptions(body))

\* generationResult.usage?.totalTokens || 0
TokensUsed(r) ==
  LET totalTokens == Get(Get(r, "usage", <<>>), "totalTokens", Undef)
  IN IF totalTokens = Undef THEN 0 ELSE totalTokens

(***************************************************************************)
(* Inputs of the handlers.                                                 *)
(***************************************************************************)
\* req.user?.id: "" when the request carries no user
Users == {"", "u1"}

\* what UserPreference.findOne resolves with: null, or a stored document
Preferences ==
  {NoPreference,
   [preferredModel |-> Name_claude],
   [defaultTemperature |-> 0],
   [preferredModel |-> Name_palm, defaultTemperature |-> 3,
    defaultSystemPrompt |-> <<66>>]}

\* model names of requests: the eight of the switch, 'GPT-4',
\* 'Claude-Instant', the unknown 'mystery' and a name that lower-cases to
\* more code units than it has
RequestModels ==
  {Name_gpt4, Name_gpt35turbo, Name_palm, Name_gemini, Name_claude,
   Name_claudeInstant, Name_localLlama, Name_localMistral,
   Name_GPT4, Name_ClaudeInstant, Name_mystery, Name_GEMINIDotted}

\* req.body.options is an open mapping: the last one carries a key with the
\* name of a parameter of the service call
RequestOptions ==
  {[usePreferredModel |-> TRUE],
   [usePreferredSettings |-> TRUE],
   [model |-> Name_claude],
   [usePreferredModel |-> TRUE, usePreferredSettings |-> TRUE,
    saveAsProject |-> TRUE]}

\* request bodies of generateText: the prompt "Hi", and a model, a
\* temperature of 0.9 and an options object, each present or left out
Bodies ==
  {Spread(Spread(Spread([prompt |-> <<72, 105>>], m), t), o) :
     m \in {<<>>} \cup {[model |-> n] : n \in RequestModels},
     t \in {<<>>, [temperature |-> 9]},
     o \in {<<>>} \cup {[options |-> x] : x \in RequestOptions}}

\* what generationService.generateText resolves with
GenerationResults ==
  {[text |-> "Hi there",
    usage |-> [promptTokens |-> 5, completionTokens |-> 3, totalTokens |-> 8],
    model |-> "gpt-4-0613"],
   [text |-> "Hi", usage |-> [promptTokens |-> 5, completionTokens |-> 3],
    model |-> "gpt-4-0613"],
   [text |-> "Hello", model |-> "gpt-4-0613"]}

\* what generationService.generateText rejects with
ServiceErrors ==
  {mapToServiceError(MkError("request failed", "none", 400, "ctx")),
   mapToServiceError(MkError("request failed", "none", 401, "noerr")),
   mapToServiceError(MkError("request failed", "none", 429, "noerr")),
   mapToServiceError(MkError("request failed", "none", 503, "noerr")),
   mapToServiceError(MkError("request failed", "none", 0, "nodata")),
   MkError("model is not available", "model_not_available", 0, "nodata")}

\* the rejections of the preference store, the project store and the
\* metrics sink
PreferenceStoreError == MkError("preference store unavailable", "none", 0, "nodata")
ProjectStoreError == MkError("project store unavailable", "none", 0, "nodata")
SinkError == MkError("metrics sink unavailable", "none", 0, "nodata")

(***************************************************************************)
(* The global error handler of server.js, which next(error) reaches.  It   *)
(* reads the error's own `name` and `status` properties (ownStatus here:   *)
(* the status field of the error records is error.response.status).  The   *)
(* errors mapToServiceError builds are `new Error(...)` with code and      *)
(* errorCode only: they have neither property.  `production` is           *)
(* process.env.NODE_ENV === 'production'.  The body has the one member     *)
(* `error`.                                                                *)
(***************************************************************************)
GlobalErrorHandler(err, production) ==
  IF Get(err, "name", "Error") = "ValidationError"
    THEN [status |-> 400, error |-> err.message]
  ELSE IF Get(err, "name", "Error") = "UnauthorizedError"
    THEN [status |-> 401, error |-> "Invalid token"]
  ELSE [status |-> IF Get(err, "ownStatus", 0) # 0
                     THEN Get(err, "ownStatus", 0) ELSE 500,
        error |-> IF production THEN "Internal server error" ELSE err.message]

(***************************************************************************)
(* exports.generateText.  One action per resumption of the handler: the    *)
(* call, the answers of UserPreference.findOne, of the service's           *)
(* generateText, of createMetricsRecord and of TextProject.create.         *)
(***************************************************************************)
\* lines 42-86: resolve the effective parameters, select the service, call it
exports_generateText_Generate(rq, p, before) ==
  /\ pref' = p
  /\ eff' = [model |-> EffectiveModel(rq.body, p),
             temperature |-> EffectiveTemperature(rq.body, p),
             service |-> SelectService(EffectiveModel(rq.body, p))]
  /\ hlog' = Append(before,
       [type |-> "generate",
        service |-> SelectService(EffectiveModel(rq.body, p)),
        params |-> ServiceParams(rq.body, rq.user, p)])
  /\ hpc' = "generating"
  /\ UNCHANGED res

exports_generateText_Call(body, user, valid) ==
  /\ handler = "none"
  /\ handler' = "generateText"
  /\ req' = [body |-> body, user |-> user, valid |-> valid]
  /\ IF ~valid
       THEN /\ res' = [status |-> 400, success |-> FALSE,
                       errorCode |-> "VALIDATION_ERROR"]
            /\ hpc' = "responded"
            /\ UNCHANGED <<pref, eff, hlog>>
       ELSE IF UserId(user) # "anonymous"
         THEN /\ hlog' = <<[type |-> "findOne", userId |-> UserId(user)]>>
              /\ hpc' = "findPref"
              /\ UNCHANGED <<pref, eff, res>>
         ELSE exports_generateText_Generate(
                [body |-> body, user |-> user, valid |-> valid], NoPreference, <<>>)
  /\ UNCHANGED <<items, gen, callVars, fcall>>

\* the catch block
exports_generateText_Catch(error) ==
  /\ IF error.code = "context_length_exceeded"
       THEN /\ hlog' = Append(hlog, [type |-> "error", error |-> error])
            /\ res' = [status |-> 400, success |-> FALSE,
                       errorCode |-> "CONTEXT_LENGTH_EXCEEDED"]
       ELSE IF error.code = "model_not_available"
         THEN /\ hlog' = Append(hlog, [type |-> "error", error |-> error])
              /\ res' = [status |-> 503, success |-> FALSE,
                         errorCode |-> "MODEL_UNAVAILABLE"]
         ELSE /\ hlog' = hlog \o <<[type |-> "error", error |-> error],
                                   [type |-> "next", error |-> error]>>
              /\ \E production \in BOOLEAN :
                   res' = GlobalErrorHandler(error, production)
  /\ hpc' = "responded"

exports_generateText_PreferenceFound(p) ==
  /\ handler = "generateText" /\ hpc = "findPref"
  /\ exports_generateText_Generate(req, p, hlog)
  /\ UNCHANGED <<handler, req, items, gen, callVars, fcall>>

exports_generateText_PreferenceRejects ==
  /\ handler = "generateText" /\ hpc = "findPref"
  /\ exports_generateText_Catch(PreferenceStoreError)
  /\ UNCHANGED <<handler, req, pref, eff, items, gen, callVars, fcall>>

\* the record handed to createMetricsRecord (processingTimeMs left out)
GenerationMetrics(r) ==
  [type |-> "metrics",
   record |-> [userId |-> UserId(req.user), operation |-> "text_generation",
               model |-> eff.model, promptLength |-> Len(req.body.prompt),
               responseLength |-> Len(r.text), tokensUsed |-> TokensUsed(r),
               successful |-> TRUE]]

exports_generateText_ServiceResolves(r) ==
  /\ handler = "generateText" /\ hpc = "generating"
  /\ gen' = r
  /\ hlog' = Append(hlog, GenerationMetrics(r))
  /\ hpc' = "metrics"
  /\ UNCHANGED <<handler, req, pref, eff, items, res, callVars, fcall>>

exports_generateText_ServiceRejects(error) ==
  /\ handler = "generateText" /\ hpc = "generating"
  /\ exports_generateText_Catch(error)
  /\ UNCHANGED <<handler, req, pref, eff, items, gen, callVars, fcall>>

\* res.status(200).json(...) and the closing logger.info
exports_generateText_Respond(projectId) ==
  /\ res' = [status |-> 200, success |-> TRUE,
             result |-> [text |-> gen.text, model |-> eff.model,
                         tokensUsed |-> TokensUsed(gen),
                         projectId |-> projectId]]
  /\ hpc' = "responded"

exports_generateText_MetricsRecorded ==
  /\ handler = "generateText" /\ hpc = "metrics"
  /\ IF Flag(BodyOptions(req.body), "saveAsProject")
       THEN /\ hlog' = Append(hlog,
                 [type |-> "createProject", userId |-> UserId(req.user),
                  content |-> gen.text, model |-> eff.model])
            /\ hpc' = "saving"
            /\ UNCHANGED res
       ELSE /\ exports_generateText_Respond("null")
            /\ UNCHANGED hlog
  /\ UNCHANGED <<handler, req, pref, eff, items, gen, callVars, fcall>>

exports_generateText_MetricsRejects ==
  /\ handler = "generateText" /\ hpc = "metrics"
  /\ exports_generateText_Catch(SinkError)
  /\ UNCHANGED <<handler, req, pref, eff, items, gen, callVars, fcall>>

exports_generateText_ProjectSaved ==
  /\ handler = "generateText" /\ hpc = "saving"
  /\ exports_generateText_Respond("project-1")
  /\ UNCHANGED <<handler, req, pref, eff, items, gen, hlog, callVars, fcall>>

exports_generateText_ProjectRejects ==
  /\ handler = "generateText" /\ hpc = "saving"
  /\ exports_generateText_Catch(ProjectStoreError)
  /\ UNCHANGED <<handler, req, pref, eff, items, gen, callVars, fcall>>

(***************************************************************************)
(* exports.batchGenerate.  An item of req.body.prompts is a string         *)
(* [type |-> "string", value |-> units], an object [type |-> "object",     *)
(* fields |-> record of the members it has] or null [type |-> "null"].     *)
(* The handler runs from its call to `await Promise.allSettled(...)`,      *)
(* having called generateText once per item; the item promises settle in   *)
(* any order; the handler resumes when all have settled, and again when    *)
(* createMetricsRecord answers.                                            *)
(***************************************************************************)
\* typeof prompt
TypeOf(item) == IF item.type = "string" THEN "string" ELSE "object"

\* reading a member of null raises a TypeError
ItemThrows(item) == item.type = "null"

\* the TypeError of `prompt.text` when prompt is null
NullItemError ==
  MkError("Cannot read properties of null (reading 'text')", "none", 0, "nodata")

\* Buffer.from(undefined) in the service's key, for an item without a text
UndefinedPromptError ==
  MkError("The first argument must be of type string or an instance of Buffer, "
          \o "ArrayBuffer, or Array or an Array-like Object. Received undefined",
          "ERR_INVALID_ARG_TYPE", 0, "nodata")

\* const { prompts, model = 'gpt-3.5-turbo', temperature = 0.7 } = req.body
BatchModel(body) == Get(body, "model", Name_gpt35turbo)
BatchTemperature(body) == Get(body, "temperature", DefaultTemperatureTenths)

\* Array.isArray(prompts): a body without prompts has none
IsArray(body) == "prompts" \in DOMAIN body

\* the argument of generationService.generateText for one item, a member
\* that is undefined being left out
BatchItemParams(item, body, user) ==
  Spread(
    Spread([temperature |-> BatchTemperature(body),
            maxTokens |-> IF TypeOf(item) = "object"
                            /\ Get(item.fields, "maxTokens", 0) # 0
                            THEN item.fields.maxTokens ELSE DefaultMaxTokens,
            model |-> BatchModel(body),
            userId |-> UserId(user)],
           IF TypeOf(item) = "string" THEN [prompt |-> item.value]
           ELSE IF "text" \in DOMAIN item.fields THEN [prompt |-> item.fields.text]
           ELSE <<>>),
    IF TypeOf(item) = "string" THEN [systemPrompt |-> <<>>]
    ELSE IF "systemPrompt" \in DOMAIN item.fields
      THEN [systemPrompt |-> item.fields.systemPrompt]
      ELSE <<>>)

\* the items the map callback reaches: all, or those before the first null
Dispatched(prompts) ==
  IF \E i \in DOMAIN prompts : ItemThrows(prompts[i])
    THEN (CHOOSE i \in DOMAIN prompts :
            /\ ItemThrows(prompts[i])
            /\ \A j \in 1 .. i - 1 : ~ItemThrows(prompts[j])) - 1
    ELSE Len(prompts)

PendingItem == [state |-> "pending"]

\* results.map((result, index) => ...), index counted from 0
ProcessedResults(its) ==
  [i \in DOMAIN its |->
     IF its[i].state = "fulfilled"
       THEN [success |-> TRUE, index |-> i - 1, text |-> its[i].value.text,
             tokensUsed |-> TokensUsed(its[i].value)]
       ELSE [success |-> FALSE, index |-> i - 1,
             error |-> IF its[i].reason.message # "" THEN its[i].reason.message
                       ELSE "Unknown error"]]

\* every item counted as a success
SuccessCount_CountsAll(its) == Len(its)

SuccessCount(its) ==
  Cardinality({i \in DOMAIN its : ProcessedResults(its)[i].success})

\* the cap that lets one more item through
ExceedsLimit_OffByOne(prompts) == Len(prompts) > MaxBatchSize + 1

\* prompts.length > 10
ExceedsLimit(prompts) == Len(prompts) > MaxBatchSize

\* the catch block of batchGenerate
exports_batchGenerate_Catch(error, before) ==
  /\ hlog' = before \o <<[type |-> "error", error |-> error],
                         [type |-> "next", error |-> error]>>
  /\ \E production \in BOOLEAN : res' = GlobalErrorHandler(error, production)
  /\ hpc' = "responded"

exports_batchGenerate_Call(body, user) ==
  /\ handler = "none"
  /\ handler' = "batchGenerate"
  /\ req' = [body |-> body, user |-> user, valid |-> TRUE]
  /\ IF ~IsArray(body) \/ Len(Get(body, "prompts", <<>>)) = 0
       THEN /\ res' = [status |-> 400, success |-> FALSE,
                       errorCode |-> "VALIDATION_ERROR"]
            /\ hpc' = "responded"
            /\ UNCHANGED <<items, hlog>>
       ELSE IF ExceedsLimit(body.prompts)
         THEN /\ res' = [status |-> 400, success |-> FALSE,
                         errorCode |-> "TOO_MANY_REQUESTS"]
              /\ hpc' = "responded"
              /\ UNCHANGED <<items, hlog>>
         ELSE LET n == Dispatched(body.prompts)
                  calls == [i \in 1 .. n |->
                              [type |-> "generate", index |-> i - 1,
                               service |-> BatchSelectService(BatchModel(body)),
                               params |-> BatchItemParams(body.prompts[i], body, user)]]
              IN /\ items' = [i \in 1 .. n |-> PendingItem]
                 /\ IF n < Len(body.prompts)
                      THEN exports_batchGenerate_Catch(NullItemError, calls)
                      ELSE /\ hlog' = calls
                           /\ hpc' = "joining"
                           /\ UNCHANGED res
  /\ UNCHANGED <<pref, eff, gen, callVars, fcall>>

\* the generateText call of item i resolves (it has a prompt)
exports_batchGenerate_ItemResolves(i, r) ==
  /\ handler = "batchGenerate"
  /\ i \in DOMAIN items /\ items[i].state = "pending"
  /\ "prompt" \in DOMAIN hlog[i].params
  /\ items' = [items EXCEPT ![i] = [state |-> "fulfilled", value |-> r]]
  /\ UNCHANGED <<handler, hpc, req, pref, eff, gen, res, hlog, callVars, fcall>>

\* the generateText call of item i rejects: with an error of the service,
\* or, its prompt being undefined, with the TypeError of Buffer.from
exports_batchGenerate_ItemRejects(i, error) ==
  /\ handler = "batchGenerate"
  /\ i \in DOMAIN items /\ items[i].state = "pending"
  /\ items' = [items EXCEPT ![i] =
       [state |-> "rejected",
        reason |-> IF "prompt" \in DOMAIN hlog[i].params THEN error
                   ELSE UndefinedPromptError]]
  /\ UNCHANGED <<handler, hpc, req, pref, eff, gen, res, hlog, callVars, fcall>>

\* Promise.allSettled resolves: the results are processed and the
\* aggregate record is handed to createMetricsRecord
exports_batchGenerate_Joined ==
  /\ handler = "batchGenerate" /\ hpc = "joining"
  /\ \A i \in DOMAIN items : items[i].state # "pending"
  /\ hlog' = Append(hlog,
       [type |-> "metrics",
        record |-> [userId |-> UserId(req.user),
                    operation |-> "batch_text_generation",
                    model |-> BatchModel(req.body),
                    batchSize |-> Len(req.body.prompts),
                    successCount |-> SuccessCount(items),
                    failureCount |-> Len(items) - SuccessCount(items),
                    successful |-> TRUE]])
  /\ hpc' = "metrics"
  /\ UNCHANGED <<handler, req, pref, eff, items, gen, res, callVars, fcall>>

exports_batchGenerate_MetricsRecorded ==
  /\ handler = "batchGenerate" /\ hpc = "metrics"
  /\ res' = [status |-> 200, success |-> TRUE,
             results |-> ProcessedResults(items),
             totalSuccessful |-> SuccessCount(items)]
  /\ hpc' = "responded"
  /\ UNCHANGED <<handler, req, pref, eff, items, gen, hlog, callVars, fcall>>

exports_batchGenerate_MetricsRejects ==
  /\ handler = "batchGenerate" /\ hpc = "metrics"
  /\ exports_batchGenerate_Catch(SinkError, hlog)
  /\ UNCHANGED <<handler, req, pref, eff, items, gen, callVars, fcall>>

\* the items of the batches: the string "Hi", the object {text: "Hi",
\* systemPrompt: "B", maxTokens: 50}, the object {} and null
ItemShapes ==
  {[type |-> "string", value |-> <<72, 105>>],
   [type |-> "object",
    fields |-> [text |-> <<72, 105>>, systemPrompt |-> <<66>>, maxTokens |-> 50]],
   [type |-> "object", fields |-> <<>>],
   [type |-> "null"]}

RECURSIVE SeqsOf(_, _)
\* the sequences of length n over S
SeqsOf(S, n) ==
  IF n = 0 THEN {<<>>}
  ELSE {Append(q, x) : q \in SeqsOf(S, n - 1), x \in S}

\* the prompts arrays: every array of up to BatchItemsBound items, and
\* arrays of MaxBatchSize and of MaxBatchSize + 1 strings
Batches ==
  UNION {SeqsOf(ItemShapes, n) : n \in 0 .. BatchItemsBound}
  \cup {[i \in 1 .. n |-> [type |-> "string", value |-> <<72, 105>>]] :
          n \in {MaxBatchSize, MaxBatchSize + 1}}

\* request bodies of batchGenerate; the last has no prompts
BatchBodies ==
  {[prompts |-> b] : b \in Batches}
  \cup {[prompts |-> b, model |-> Name_claude, temperature |-> 9] :
          b \in SeqsOf(ItemShapes, 1)}
  \cup {[model |-> Name_gpt4]}

\* what an item's generateText resolves and rejects with
BatchResults ==
  {[text |-> "Hi there",
    usage |-> [promptTokens |-> 5, completionTokens |-> 3, totalTokens |-> 8],
    model |-> "gpt-4-0613"]}
BatchErrors ==
  {mapToServiceError(MkError("request failed", "none", 401, "noerr"))}

(***************************************************************************)
(* Single calls of the pure functions.                                     *)
(***************************************************************************)
\* result.usage.total_tokens of the responses whose TTL is computed
TokenCounts == {0, 1, 8, 89, 90, 91, 100, 4319, 4320, 4321, 100000}

\* destructured params of the two requests whose keys are compared: models
\* with and without ':', prompts "Hi", the lone surrogates U+D800, U+D801
\* and the surrogate pair of U+1F600
KeyParams ==
  {[prompt |-> p, systemPrompt |-> sp, temperature |-> t, maxTokens |-> mt,
    model |-> m, userId |-> "anonymous", useCaching |-> TRUE] :
     p \in {<<72, 105>>, <<55296>>, <<55297>>, <<55357, 56832>>}, sp \in {<<>>, <<66>>},
     t \in {7, 10}, mt \in {1, 1000}, m \in {"gpt-4", "gpt-4:1"}}

\* model names the two selections are compared on: those of the requests,
\* 'PALM', 'Gemini', 'CLAUDE', 'Local-Llama', 'LOCAL-MISTRAL', 'palm '
\* with a space at its end, 'gemini' with the small dotless i U+0131 and
\* 'CLAUDE' with the Kelvin sign U+212A before it
SelectionModels ==
  RequestModels
  \cup {<<80, 65, 76, 77>>,
        <<71, 101, 109, 105, 110, 105>>,
        <<67, 76, 65, 85, 68, 69>>,
        <<76, 111, 99, 97, 108, 45, 76, 108, 97, 109, 97>>,
        <<76, 79, 67, 65, 76, 45, 77, 73, 83, 84, 82, 65, 76>>,
        <<112, 97, 108, 109, 32>>,
        <<103, 101, 109, 305, 110, 305>>,
        <<8490, 67, 76, 65, 85, 68, 69>>}

PureCalls ==
  {[fn |-> "isRetryableError", arg |-> e, done |-> FALSE, ret |-> <<>>] :
     e \in RawErrors}
  \cup {[fn |-> "mapToServiceError", arg |-> e, done |-> FALSE, ret |-> <<>>] :
     e \in RawErrors}
  \cup {[fn |-> "cacheTTL", arg |-> t, done |-> FALSE, ret |-> <<>>] :
     t \in TokenCounts}
  \cup {[fn |-> "cacheKey", arg |-> <<p1, p2>>, done |-> FALSE, ret |-> <<>>] :
     p1 \in KeyParams, p2 \in KeyParams}
  \cup {[fn |-> "selectService", arg |-> m, done |-> FALSE, ret |-> <<>>] :
     m \in SelectionModels}

isRetryableError_Apply ==
  /\ fcall.fn = "isRetryableError" /\ ~fcall.done
  /\ fcall' = [fcall EXCEPT !.done = TRUE, !.ret = isRetryableError(fcall.arg)]
  /\ UNCHANGED <<callVars, ctlVars>>

mapToServiceError_Apply ==
  /\ fcall.fn = "mapToServiceError" /\ ~fcall.done
  /\ fcall' = [fcall EXCEPT !.done = TRUE, !.ret = mapToServiceError(fcall.arg)]
  /\ UNCHANGED <<callVars, ctlVars>>

cacheTTL_Apply ==
  /\ fcall.fn = "cacheTTL" /\ ~fcall.done
  /\ fcall' = [fcall EXCEPT !.done = TRUE, !.ret = cacheTTL(fcall.arg)]
  /\ UNCHANGED <<callVars, ctlVars>>

\* the key one request writes under and the key another request looks up
cacheKey_Apply ==
  /\ fcall.fn = "cacheKey" /\ ~fcall.done
  /\ fcall' = [fcall EXCEPT !.done = TRUE,
                            !.ret = <<WriteKey(fcall.arg[1]), LookupKey(fcall.arg[2])>>]
  /\ UNCHANGED <<callVars, ctlVars>>

\* the service generateText selects for a model name and the service
\* batchGenerate selects for it
selectService_Apply ==
  /\ fcall.fn = "selectService" /\ ~fcall.done
  /\ fcall' = [fcall EXCEPT !.done = TRUE,
                            !.ret = <<SelectService(fcall.arg),
                                      BatchSelectService(fcall.arg)>>]
  /\ UNCHANGED <<callVars, ctlVars>>

(***************************************************************************)
(* Specifications.                                                         *)
(*   Spec      - concurrent generateText dispatches over one cache, the    *)
(*               first of which may be an editText dispatch instead (the   *)
(*               dispatches run concurrently from their calls on, so which *)
(*               of them is called first is immaterial)                    *)
(*   SpecRetry - one call, of executeWithRetry with any options or of      *)
(*               generateText, over an operation that fails in every way   *)
(*   SpecPure  - single calls of the pure functions                        *)
(*   SpecFaulty   - one generateText dispatch over a cache that can reject *)
(*   SpecDispatch - one request served by the controller's generateText    *)
(*   SpecBatch    - one request served by the controller's batchGenerate   *)
(*   SpecLate     - one executeWithRetry call with late settlements        *)
(***************************************************************************)
Next ==
  \/ \E c \in Calls, p \in GenerateParams : generateText_Call(c, p)
  \/ \E c \in Calls : generateText_CacheGet(c)
  \/ \E c \in Calls, r \in Responses : OperationResolves(c, r)
  \/ \E c \in Calls : OperationRejects(c, DispatchErrors, DispatchJitters)
  \/ \E c \in Calls : TimeoutFires(c, DispatchJitters)
  \/ \E c \in Calls : BackoffElapses(c)
  \/ \E c \in Calls : generateText_CacheSet(c)
  \/ \E p \in EditParams : editText_Call(1, p)
  \/ editText_CacheGet(1)
  \/ editText_CacheSet(1)
  \/ CacheExpire

Spec == Init /\ [][Next]_vars

NextRetry ==
  \/ \E options \in RetryOptions : executeWithRetry_Call(1, options)
  \/ \E p \in GenerateParams : generateText_Call(1, p)
  \/ generateText_CacheGet(1)
  \/ \E r \in Responses : OperationResolves(1, r)
  \/ OperationRejects(1, RetryErrors, Jitters)
  \/ TimeoutFires(1, Jitters)
  \/ BackoffElapses(1)
  \/ generateText_CacheSet(1)

SpecRetry == Init /\ [][NextRetry]_vars

\* one generateText dispatch over a cache store that can reject
NextFaulty ==
  \/ \E p \in GenerateParams : generateText_Call(1, p)
  \/ generateText_CacheGet(1)
  \/ generateText_CacheGetRejects(1)
  \/ \E r \in Responses : OperationResolves(1, r)
  \/ OperationRejects(1, RetryErrors, Jitters)
  \/ TimeoutFires(1, Jitters)
  \/ BackoffElapses(1)
  \/ generateText_CacheSet(1)
  \/ generateText_CacheSetRejects(1)

SpecFaulty == Init /\ [][NextFaulty]_vars

\* one call of executeWithRetry whose abandoned operations settle late
NextLate ==
  \/ \E options \in LateOptions : executeWithRetry_Call(1, options)
  \/ \E r \in Responses : OperationResolves(1, r)
  \/ OperationRejects(1, DispatchErrors, DispatchJitters)
  \/ TimeoutFires(1, DispatchJitters)
  \/ BackoffElapses(1)
  \/ \E k \in 0 .. LateRetriesBound, r \in LateResponses : LateResolves(1, k, r)
  \/ \E k \in 0 .. LateRetriesBound, error \in LateErrors : LateRejects(1, k, error)

SpecLate == Init /\ [][NextLate]_vars

\* one request served by the controller's generateText
NextDispatch ==
  \/ \E body \in Bodies, user \in Users, valid \in BOOLEAN :
       exports_generateText_Call(body, user, valid)
  \/ \E p \in Preferences : exports_generateText_PreferenceFound(p)
  \/ exports_generateText_PreferenceRejects
  \/ \E r \in GenerationResults : exports_generateText_ServiceResolves(r)
  \/ \E e \in ServiceErrors : exports_generateText_ServiceRejects(e)
  \/ exports_generateText_MetricsRecorded
  \/ exports_generateText_MetricsRejects
  \/ exports_generateText_ProjectSaved
  \/ exports_generateText_ProjectRejects

SpecDispatch == Init /\ [][NextDispatch]_vars

\* one request served by the controller's batchGenerate
NextBatch ==
  \/ \E body \in BatchBodies, user \in Users : exports_batchGenerate_Call(body, user)
  \/ \E i \in 1 .. MaxBatchSize, r \in BatchResults :
       exports_batchGenerate_ItemResolves(i, r)
  \/ \E i \in 1 .. MaxBatchSize, e \in BatchErrors :
       exports_batchGenerate_ItemRejects(i, e)
  \/ exports_batchGenerate_Joined
  \/ exports_batchGenerate_MetricsRecorded
  \/ exports_batchGenerate_MetricsRejects

SpecBatch == Init /\ [][NextBatch]_vars

InitPure == InitCalls /\ fcall \in PureCalls /\ InitHandler

NextPure ==
  \/ isRetryableError_Apply
  \/ mapToServiceError_Apply
  \/ cacheTTL_Apply
  \/ cacheKey_Apply
  \/ selectService_Apply

SpecPure == InitPure /\ [][NextPure]_vars

(***************************************************************************)
(* Vocabulary of the properties.                                           *)
(***************************************************************************)
Done(c) == pc[c] \in {"returned", "thrown"}

EventsOf(c, t) == {i \in DOMAIN log[c] : log[c][i].type = t}

Count(c, t) == Cardinality(EventsOf(c, t))

\* what the caller asked of executeWithRetry: its option, else the default
Requested(c, k) ==
  IF caller[c] = "direct" THEN Get(params[c], k, DEFAULT_CONFIG[k])
  ELSE DEFAULT_CONFIG[k]

\* the error taxonomy, read off an error by its fields: a service error by
\* its errorCode, a raw error by status, then connection code, then timeout
ErrorKind(e) ==
  IF e.errorCode = "RATE_LIMIT_EXCEEDED" \/ e.status = 429 THEN "RateLimited"
  ELSE IF e.status \in {500, 502, 503, 504} THEN "ServerTransient"
  ELSE IF e.errorCode = "CONTEXT_LENGTH_EXCEEDED"
          \/ (e.status = 400 /\ e.sub = "ctx") THEN "InvalidInput"
  ELSE IF e.errorCode = "UNAUTHORIZED" \/ e.status = 401 THEN "Unauthorized"
  ELSE IF e.errorCode = "FORBIDDEN" \/ e.status = 403 THEN "Forbidden"
  ELSE IF e.errorCode = "RESOURCE_NOT_FOUND" \/ e.status = 404 THEN "NotFound"
  ELSE IF e.code \in {"ECONNRESET", "ECONNREFUSED", "ENOTFOUND"}
    THEN "NetworkTransient"
  ELSE IF IncludesTimedOut(e.message) \/ e.code = "ETIMEDOUT" THEN "Timeout"
  ELSE "Unknown"

(***************************************************************************)
(* C1.  One call of executeWithRetry invokes the operation at most         *)
(* maxRetries + 1 times (maxRetries as the caller configured it, 2 by      *)
(* default) and then terminates: every step of a started call adds to its  *)
(* log or ends it, the                                                     *)
(* log never holds more than three events per permitted attempt, and a     *)
(* call that has neither returned nor thrown always has a step to take,    *)
(* which the timers (attempt timeout, backoff sleep) guarantee is taken.   *)
(***************************************************************************)
C1_Bounded ==
  \A c \in Calls :
    caller[c] # "none" =>
      /\ Count(c, "op") <= Requested(c, "maxRetries") + 1
      /\ Len(log[c]) <= 3 * (Requested(c, "maxRetries") + 1) + 1
      /\ \/ Done(c)
         \/ ENABLED TimeoutFires(c, Jitters)
         \/ ENABLED BackoffElapses(c)
         \/ ENABLED generateText_CacheGet(c)
         \/ ENABLED generateText_CacheSet(c)

C1_RetryTerminates ==
  /\ []C1_Bounded
  /\ [][\A c \in Calls :
          (pc[c] # "idle" /\ <<pc[c], attempt[c]>> # <<pc'[c], attempt'[c]>>) =>
            \/ Len(log'[c]) > Len(log[c])
            \/ Done(c)']_vars

\* a call that used its whole budget of four attempts and threw
C1_Witness ==
  /\ pc[1] = "thrown"
  /\ caller[1] = "direct"
  /\ Requested(1, "maxRetries") = 3
  /\ Count(1, "op") = 4

(***************************************************************************)
(* C2.  A call of executeWithRetry whose operation fails on its first k    *)
(* attempts and succeeds on attempt k + 1 returns that attempt's result    *)
(* after exactly k + 1 operation calls and k sleeps: its log is k times    *)
(* (call, failure, sleep) followed by (call, success), so a sleep lies     *)
(* between each failed attempt and the next and none follows the success.  *)
(***************************************************************************)
C2_SleepsBetweenAttempts ==
  \A c \in Calls :
    (caller[c] = "direct" /\ Count(c, "ok") > 0) =>
      LET k == Count(c, "fail") IN
        /\ Len(log[c]) = 3 * k + 2
        /\ \A i \in 0 .. k - 1 :
             /\ log[c][3 * i + 1] = OpEvent(i)
             /\ log[c][3 * i + 2].type = "fail"
             /\ isRetryableError(log[c][3 * i + 2].error)
             /\ log[c][3 * i + 3].type = "sleep"
        /\ log[c][3 * k + 1] = OpEvent(k)
        /\ log[c][3 * k + 2].type = "ok"
        /\ Count(c, "op") = k + 1
        /\ Count(c, "sleep") = k
        /\ pc[c] = "returned"
        /\ result[c] = log[c][3 * k + 2].value

\* 429, 429, success: returned after three calls and two sleeps
C2_Witness ==
  /\ pc[1] = "returned"
  /\ caller[1] = "direct"
  /\ Count(1, "sleep") = 2
  /\ Count(1, "op") = 3
  /\ log[1][2].type = "fail" /\ log[1][2].error.status = 429
  /\ log[1][5].type = "fail" /\ log[1][5].error.status = 429

(***************************************************************************)
(* C3.  An attempt that fails with an error of a non-retryable kind        *)
(* (InvalidInput, Unauthorized, Forbidden, NotFound, Unknown), whatever    *)
(* the error's message and code fields hold, ends the call at once: the    *)
(* failure is the last event of the log, no sleep and no further operation *)
(* call follow it.                                                         *)
(***************************************************************************)
C3_NonRetryableStopsAtOnce ==
  \A c \in Calls :
    \A i \in EventsOf(c, "fail") :
      ErrorKind(log[c][i].error) \in
          {"InvalidInput", "Unauthorized", "Forbidden", "NotFound", "Unknown"}
        => /\ i = Len(log[c])
           /\ pc[c] = "thrown"

\* an error of status 401 whose message holds 'timed out' is slept on
C3_Retried401 ==
  \E i \in EventsOf(1, "fail") :
    /\ log[1][i].error.status = 401
    /\ i < Len(log[1])
    /\ log[1][i + 1].type = "sleep"

(***************************************************************************)
(* C4.  isRetryableError is true exactly when the error is a timeout (its  *)
(* message contains 'timed out' or its code is ETIMEDOUT), or carries a    *)
(* response with a status in {429, 500, 502, 503, 504}, or is a low-level  *)
(* connection failure (no response came, and the code is ECONNRESET,       *)
(* ECONNREFUSED or ENOTFOUND); for every other raw error it is false: a    *)
(* response of status 400, 401, 403, 404 or of an unlisted status without  *)
(* a timeout marker, and an error without response and with another code.  *)
(***************************************************************************)
C4_RetryableSet ==
  (fcall.fn = "isRetryableError" /\ fcall.done) =>
    (fcall.ret <=>
       \/ IncludesTimedOut(fcall.arg.message) \/ fcall.arg.code = "ETIMEDOUT"
       \/ fcall.arg.status # 0 /\ fcall.arg.status \in {429, 500, 502, 503, 504}
       \/ fcall.arg.status = 0
          /\ fcall.arg.code \in {"ECONNRESET", "ECONNREFUSED", "ENOTFOUND"})

\* a 404 response, which is no connection failure whatever code the error
\* has, was judged not retryable
C4_Witness ==
  /\ fcall.fn = "isRetryableError" /\ fcall.done
  /\ fcall.arg.status = 404 /\ fcall.arg.code = "ECONNRESET"
  /\ ~IncludesTimedOut(fcall.arg.message)
  /\ fcall.ret = FALSE

(***************************************************************************)
(* C5.  A call that ends Exhausted throws the mapping of the LAST          *)
(* attempt's raw error, and the kind of what it throws is the kind of that *)
(* raw error by the decision table (429 RateLimited, 5xx ServerTransient,  *)
(* 400 with the context-length sub-code InvalidInput, 401 Unauthorized,    *)
(* 403 Forbidden, 404 NotFound, connection failure NetworkTransient,       *)
(* timeout Timeout, anything else Unknown); generateText rejects with the  *)
(* very error executeWithRetry threw.                                      *)
(***************************************************************************)
C5_ExhaustedThrowsMappedLast ==
  \A c \in Calls :
    pc[c] = "thrown" =>
      LET last == log[c][Len(log[c])] IN
        /\ last.type = "fail"
        /\ lastError[c] = last.error
        /\ ErrorKind(thrown[c]) = ErrorKind(last.error)
        /\ last.error.status \in {401, 403, 404, 429}
             => /\ thrown[c].errorCode # "none"
                /\ thrown[c].status = 0
        /\ (last.error.status = 400 /\ last.error.sub = "ctx")
             => thrown[c].code = "context_length_exceeded"

\* every attempt failed with a 400 response that has no body and a message
\* of a timeout; the call threw the TypeError of reading the body, of kind
\* Unknown
C5_TypeErrorThrown ==
  /\ pc[1] = "thrown"
  /\ Count(1, "fail") = 3
  /\ lastError[1] = MkError("upstream timed out", "none", 400, "nodata")
  /\ ErrorKind(lastError[1]) = "Timeout"
  /\ thrown[1] = DataTypeError
  /\ ErrorKind(thrown[1]) = "Unknown"

(***************************************************************************)
(* C6.  An attempt ended by the per-attempt timeout is a failure of kind   *)
(* Timeout, which is retryable, and uses up exactly one attempt: while     *)
(* budget remains it is followed by one sleep and then by the call of the  *)
(* next attempt; when every attempt times out the operation is called      *)
(* exactly maxRetries + 1 times and the call throws the timeout error.     *)
(***************************************************************************)
C6_TimeoutIsOneRetryableAttempt ==
  \A c \in Calls :
    /\ \A i \in EventsOf(c, "fail") :
         log[c][i].timedOut =>
           LET k == log[c][i - 1].attempt IN
             /\ log[c][i - 1] = OpEvent(k)
             /\ ErrorKind(log[c][i].error) = "Timeout"
             /\ IF k < Requested(c, "maxRetries")
                  THEN /\ pc[c] # "thrown" \/ i < Len(log[c])
                       /\ i < Len(log[c]) => log[c][i + 1].type = "sleep"
                       /\ i + 1 < Len(log[c]) => log[c][i + 2] = OpEvent(k + 1)
                  ELSE i = Len(log[c]) /\ pc[c] = "thrown"
    /\ (pc[c] = "thrown" /\ \A i \in EventsOf(c, "fail") : log[c][i].timedOut) =>
         /\ Count(c, "op") = Requested(c, "maxRetries") + 1
         /\ Count(c, "fail") = Requested(c, "maxRetries") + 1
         /\ ErrorKind(thrown[c]) = "Timeout"
         /\ thrown[c].message = "Request timed out"

\* three attempts, each timed out: Exhausted with the timeout error
C6_Witness ==
  /\ pc[1] = "thrown"
  /\ Requested(1, "maxRetries") = 2
  /\ Count(1, "op") = 3
  /\ \A i \in EventsOf(1, "fail") : log[1][i].timedOut
  /\ thrown[1] = TimeoutError

(***************************************************************************)
(* C7.  The sleep after failed attempt k lasts                             *)
(* min(2^k * baseDelay + jitter, 30000) ms with 0 <= jitter < 300: never   *)
(* more than 30 s, between the pre-jitter delay min(2^k * baseDelay,       *)
(* 30000) and that plus the jitter, and the pre-jitter delay does not      *)
(* decrease from one sleep of a call to the next.                          *)
(***************************************************************************)
C7_BackoffDelay ==
  \A c \in Calls :
    \A i \in EventsOf(c, "sleep") :
      LET ev == log[c][i]
          k == Cardinality({j \in EventsOf(c, "sleep") : j < i})
          b == Requested(c, "retryDelay")
          pre == IF (2 ^ k) * b <= 30000 THEN (2 ^ k) * b ELSE 30000
      IN /\ ev.attempt = k
         /\ ev.jitter >= 0 /\ ev.jitter < 300
         /\ ev.ms = (IF (2 ^ k) * b + ev.jitter <= 30000
                       THEN (2 ^ k) * b + ev.jitter ELSE 30000)
         /\ ev.ms <= 30000
         /\ pre <= ev.ms /\ ev.ms <= pre + ev.jitter
         /\ \A j \in EventsOf(c, "sleep") :
              (j < i /\ log[c][j].jitter = 0 /\ ev.jitter = 0)
                => log[c][j].ms <= ev.ms

\* base delay 16 s: 16 s after attempt 0, capped at 30 s after attempt 1
C7_Witness ==
  /\ Count(1, "sleep") = 2
  /\ log[1][3].type = "sleep" /\ log[1][3].ms = 16000
  /\ log[1][6].type = "sleep" /\ log[1][6].ms = 30000 /\ log[1][6].jitter = 0

(***************************************************************************)
(* Vocabulary of the cache properties.                                     *)
(***************************************************************************)
FiveFields(p) ==
  LET d == Destructure(p)
  IN <<d.model, d.temperature, d.maxTokens, d.prompt, d.systemPrompt>>

\* the calls, other than c, that succeeded with the request p, wrote their
\* entry, and whose entry's key is still in the cache
LiveWriters(c, p) ==
  {w \in Calls \ {c} :
     /\ pc[w] = "returned"
     /\ caller[w] = "generateText"
     /\ FiveFields(params[w]) = FiveFields(p)
     /\ \E i \in EventsOf(w, "set") : \E e \in cache : e.key = log[w][i].key}

\* call c issues its first backend call in this step
FirstBackendCall(c) ==
  /\ Count(c, "op") = 0
  /\ Len(log'[c]) > 0
  /\ log'[c][Len(log'[c])] = OpEvent(0)

(***************************************************************************)
(* C8, as claimed.  After a generateText call with caching enabled has     *)
(* succeeded and written its entry, ANY later generateText call with the   *)
(* identical (model, temperature, maxTokens, prompt, systemPrompt), made   *)
(* while the entry is in the cache, makes no backend call.                 *)
(***************************************************************************)
C8_Original ==
  [][\A c \in Calls :
       (caller'[c] = "generateText" /\ FirstBackendCall(c))
         => LiveWriters(c, params'[c]) = {}]_vars

(***************************************************************************)
(* C8, amended.  After a generateText call with caching enabled has        *)
(* succeeded and written its entry, any later generateText call WITH       *)
(* CACHING ENABLED and the identical (model, temperature, maxTokens,       *)
(* prompt, systemPrompt), whose lookup happens while the entry is in the   *)
(* cache, returns the cached result (the JSON round trip of a writer's     *)
(* response data) and makes no backend call: the key of the write is the   *)
(* key of the lookup.                                                      *)
(***************************************************************************)
C8_RepeatIsCacheHit ==
  [][\A c \in Calls :
       /\ (caller'[c] = "generateText" /\ Destructure(params'[c]).useCaching
           /\ FirstBackendCall(c))
            => LiveWriters(c, params'[c]) = {}
       /\ (pc[c] = "lookup" /\ pc'[c] # "lookup" /\ LiveWriters(c, params[c]) # {})
            => /\ pc'[c] = "returned"
               /\ Count(c, "op")' = 0
               /\ \E w \in LiveWriters(c, params[c]) :
                    result'[c] = JsonParse(JsonStringify(result[w]))]_vars

\* a second call of the same request returned from the cache, no backend call
C8_Witness ==
  /\ pc[1] = "returned" /\ Count(1, "set") = 1
  /\ pc[2] = "returned" /\ Count(2, "op") = 0
  /\ FiveFields(params[1]) = FiveFields(params[2])
  /\ Count(2, "get") = 1 /\ log[2][1].hit
  /\ result[2] = JsonParse(JsonStringify(result[1]))
  /\ result[2] # result[1]

(***************************************************************************)
(* C9.  A cache entry is written only for the successful result of a       *)
(* dispatch: a write directly follows the success of the call's operation, *)
(* a dispatch that threw has written nothing, and every entry of the cache *)
(* is the serialized response data of a call that succeeded.               *)
(***************************************************************************)
C9_OnlySuccessIsCached ==
  /\ \A c \in Calls :
       /\ \A i \in EventsOf(c, "set") : i > 1 /\ log[c][i - 1].type = "ok"
       /\ pc[c] = "thrown" => Count(c, "set") = 0
       /\ Count(c, "ok") = 0 => Count(c, "set") = 0
  /\ \A e \in cache :
       \E c \in Calls :
         /\ pc[c] = "returned"
         /\ Count(c, "ok") = 1
         /\ \E i \in EventsOf(c, "set") : log[c][i].key = e.key
         /\ e.value = JsonStringify(result[c])

\* one dispatch threw after retries, another succeeded: one entry, the latter's
C9_Witness ==
  /\ pc[1] = "thrown" /\ Count(1, "fail") = 3
  /\ caller[1] = "generateText"
  /\ Destructure(params[1]).useCaching
  /\ pc[2] = "returned" /\ Count(2, "set") = 1
  /\ Cardinality(cache) = 1

(***************************************************************************)
(* C10, as claimed.  Every generateText dispatch performs exactly one      *)
(* cache read and at most one cache write, whatever useCaching is; the     *)
(* write comes after the read and only on a miss.                          *)
(***************************************************************************)
C10_Original ==
  \A c \in Calls :
    (caller[c] = "generateText" /\ Done(c)) =>
      /\ Count(c, "get") = 1
      /\ Count(c, "set") <= 1
      /\ \A i \in EventsOf(c, "set") : log[c][1].type = "get" /\ ~log[c][1].hit

(***************************************************************************)
(* C10, amended.  A generateText dispatch performs exactly one cache read  *)
(* when useCaching is true and none when it is false, and at most one      *)
(* cache write, none when useCaching is false; the write comes after the   *)
(* read and only on a miss.                                                *)
(***************************************************************************)
C10_OneReadAtMostOneWrite ==
  \A c \in Calls :
    caller[c] = "generateText" =>
      /\ Count(c, "get") <= 1
      /\ Count(c, "set") <= 1
      /\ \A i \in EventsOf(c, "get") : i = 1
      /\ \A i \in EventsOf(c, "set") :
           /\ i = Len(log[c])
           /\ log[c][1].type = "get" /\ ~log[c][1].hit
      /\ ~Destructure(params[c]).useCaching
           => Count(c, "get") = 0 /\ Count(c, "set") = 0
      /\ (Destructure(params[c]).useCaching /\ pc[c] # "lookup")
           => Count(c, "get") = 1

\* a caching dispatch that missed and wrote, and one that bypassed the cache
C10_Witness ==
  /\ pc[1] = "returned" /\ Count(1, "get") = 1 /\ Count(1, "set") = 1
  /\ pc[2] = "returned" /\ ~Destructure(params[2]).useCaching
  /\ Count(2, "get") = 0 /\ Count(2, "op") = 1

(***************************************************************************)
(* C11.  The TTL of a generation cache write is                            *)
(* clamp(totalTokens * 20 s, 1800 s, 86400 s): for every totalTokens >= 0  *)
(* it lies in [1800, 86400], it is non-decreasing in totalTokens, and it   *)
(* is 1800 s for totalTokens = 8.                                          *)
(***************************************************************************)
C11_TTLClamp ==
  (fcall.fn = "cacheTTL" /\ fcall.done) =>
    LET t == fcall.arg
        ttl == fcall.ret
    IN /\ 1800 <= ttl /\ ttl <= 86400
       /\ ttl = (IF t * 20 < 1800 THEN 1800
                 ELSE IF t * 20 > 86400 THEN 86400 ELSE t * 20)
       /\ \A u \in TokenCounts : u <= t => cacheTTL(u) <= ttl
       /\ (t = 8 => ttl = 1800)

\* the scenario's response of 8 tokens has had its TTL computed
C11_Witness ==
  fcall.fn = "cacheTTL" /\ fcall.done /\ fcall.arg = 8 /\ fcall.ret = 1800

(***************************************************************************)
(* C12.  The cache key is an injective function of the request's fields:   *)
(* the key one request writes under equals the key another request looks   *)
(* up if and only if model, temperature, maxTokens, prompt and             *)
(* systemPrompt are all equal (the backend is the constant 'openai' of     *)
(* this adapter), also when the model name contains ':'.                   *)
(***************************************************************************)
C12_KeyInjective ==
  (fcall.fn = "cacheKey" /\ fcall.done) =>
    ((fcall.ret[1] = fcall.ret[2])
       <=> (FiveFields(fcall.arg[1]) = FiveFields(fcall.arg[2])))

\* two requests whose prompts differ get one key
C12_Collision ==
  /\ fcall.fn = "cacheKey" /\ fcall.done
  /\ fcall.arg[1].prompt # fcall.arg[2].prompt
  /\ fcall.ret[1] = fcall.ret[2]

\* model names with ':' never collide: equal keys have equal model,
\* temperature and maxTokens
C12_SeparatorIsHarmless ==
  (fcall.fn = "cacheKey" /\ fcall.done /\ fcall.ret[1] = fcall.ret[2]) =>
    /\ fcall.arg[1].model = fcall.arg[2].model
    /\ fcall.arg[1].temperature = fcall.arg[2].temperature
    /\ fcall.arg[1].maxTokens = fcall.arg[2].maxTokens
    /\ fcall.arg[1].systemPrompt = fcall.arg[2].systemPrompt

(***************************************************************************)
(* C13.  When the cache store is unavailable generateText behaves as an    *)
(* always-miss cache: a cache read that fails before the backend call, or  *)
(* a cache write that fails after a successful backend call, never makes   *)
(* the dispatch fail, so no dispatch rejects with the cache's error.       *)
(***************************************************************************)
C13_CacheFailureNeverFailsDispatch ==
  \A c \in Calls :
    /\ pc[c] = "thrown" => thrown[c] # CacheError
    /\ (Count(c, "getfail") > 0 /\ Done(c)) => Count(c, "op") > 0
    /\ (Count(c, "setfail") > 0 /\ Done(c)) => pc[c] = "returned"

\* the backend answered, the cache write failed, and the dispatch rejected
C13_WriteFailureFailsDispatch ==
  /\ pc[1] = "thrown"
  /\ thrown[1] = CacheError
  /\ Count(1, "ok") = 1
  /\ Count(1, "setfail") = 1

(***************************************************************************)
(* Vocabulary of the controller properties.                                *)
(***************************************************************************)
HEventsOf(t) == {i \in DOMAIN hlog : hlog[i].type = t}

\* the errors the handler passed to next(error)
Raised == {hlog[i].error : i \in HEventsOf("next")}

(***************************************************************************)
(* C14.  A failure of the preference lookup (UserPreference.findOne) or    *)
(* of the metrics write (createMetricsRecord) never fails a dispatch: the  *)
(* failure is not raised to next(error), and a request whose generation    *)
(* succeeded is answered with the generation result.                       *)
(***************************************************************************)
C14_CollaboratorFailureNeverFailsDispatch ==
  (handler = "generateText" /\ hpc = "responded") =>
    /\ PreferenceStoreError \notin Raised
    /\ SinkError \notin Raised
    /\ (gen # NoResult /\ ProjectStoreError \notin Raised) =>
         (res.status = 200 /\ res.result.text = gen.text)

\* the generation succeeded, the metrics write failed, the request got a 500
C14_MetricsFailureFailsDispatch ==
  /\ handler = "generateText" /\ hpc = "responded"
  /\ gen # NoResult
  /\ SinkError \in Raised
  /\ res.status = 500

(***************************************************************************)
(* C15.  The effective model (and likewise the effective temperature) is   *)
(* the request's explicit value when the request supplies one; otherwise   *)
(* the stored preference when the request opted in and a value is stored   *)
(* (temperature 0 included); otherwise the default 'gpt-4' / 0.7.          *)
(***************************************************************************)
C15_EffectiveParameters ==
  (handler = "generateText" /\ eff # NoEffective) =>
    LET body == req.body
        options == BodyOptions(body)
    IN /\ eff.model =
            (IF "model" \in DOMAIN body THEN body.model
             ELSE IF Flag(options, "usePreferredModel")
                     /\ "preferredModel" \in DOMAIN pref
               THEN pref.preferredModel
               ELSE Name_gpt4)
       /\ eff.temperature =
            (IF "temperature" \in DOMAIN body THEN body.temperature
             ELSE IF Flag(options, "usePreferredSettings")
                     /\ "defaultTemperature" \in DOMAIN pref
               THEN pref.defaultTemperature
               ELSE 7)

\* an opted-in request without a temperature, a stored temperature of 0,
\* and an effective temperature of 0.7
C15_StoredZeroIgnored ==
  /\ handler = "generateText" /\ eff # NoEffective
  /\ "temperature" \notin DOMAIN req.body
  /\ Flag(BodyOptions(req.body), "usePreferredSettings")
  /\ Get(pref, "defaultTemperature", 7) = 0
  /\ eff.temperature = 7

\* a request with an explicit model whose effective model is the stored one
C15_PreferenceOverridesExplicit ==
  /\ handler = "generateText" /\ eff # NoEffective
  /\ "model" \in DOMAIN req.body
  /\ eff.model # req.body.model

(***************************************************************************)
(* C16.  Backend selection in single-item dispatch is a total function of  *)
(* the case-insensitive effective model name: gpt-4 and gpt-3.5-turbo      *)
(* select OpenAI, palm and gemini PaLM, claude and claude-instant          *)
(* Anthropic, local-llama and local-mistral the local LLM, every other     *)
(* name the default OpenAI adapter; the selected service is then called,   *)
(* and no name raises an error.                                            *)
(***************************************************************************)
C16_SelectionIsTotal ==
  (handler = "generateText" /\ eff # NoEffective) =>
    /\ eff.service =
         (IF eff.model \in {Name_gpt4, Name_GPT4, Name_gpt35turbo}
            THEN "openaiService"
          ELSE IF eff.model \in {Name_palm, Name_gemini} THEN "palmService"
          ELSE IF eff.model \in {Name_claude, Name_claudeInstant,
                                 Name_ClaudeInstant}
            THEN "anthropicService"
          ELSE IF eff.model \in {Name_localLlama, Name_localMistral}
            THEN "localLLMService"
          ELSE "openaiService")
    /\ \E i \in HEventsOf("generate") :
         /\ hlog[i].service = eff.service
         /\ \A j \in 1 .. i : hlog[j].type \notin {"error", "next"}

\* the unknown name 'mystery' was given the OpenAI adapter, which was called
C16_Witness ==
  /\ handler = "generateText" /\ hpc = "generating"
  /\ eff.model = Name_mystery
  /\ eff.service = "openaiService"
  /\ \E i \in HEventsOf("generate") : hlog[i].service = "openaiService"

(***************************************************************************)
(* Vocabulary of the batch properties.                                     *)
(***************************************************************************)
\* a batchGenerate request whose prompts is an array
BatchOf == IF handler = "batchGenerate" /\ IsArray(req.body)
             THEN req.body.prompts ELSE <<>>

BatchAnswered == handler = "batchGenerate" /\ IsArray(req.body) /\ hpc = "responded"

\* output[i] holds the outcome of input[i]
HoldsOutcome(out, it) ==
  IF it.state = "fulfilled"
    THEN out.success /\ out.text = it.value.text
    ELSE ~out.success /\ out.error = it.reason.message

(***************************************************************************)
(* C17.  For any prompts array of length L <= 10, L = 0 included,          *)
(* batchGenerate answers with an output sequence of exactly L results,     *)
(* output[i].index = i, output[i] holding the outcome of input[i],         *)
(* whatever the order in which the item dispatches complete (the metrics   *)
(* sink being available).                                                  *)
(***************************************************************************)
C17_BatchShape ==
  (BatchAnswered /\ Len(BatchOf) <= 10 /\ SinkError \notin Raised) =>
    /\ "results" \in DOMAIN res
    /\ Len(res.results) = Len(BatchOf)
    /\ Len(items) = Len(BatchOf)
    /\ \A i \in DOMAIN res.results :
         /\ res.results[i].index = i - 1
         /\ HoldsOutcome(res.results[i], items[i])

\* a batch of two items answered without results
C17_NoOutput ==
  /\ BatchAnswered /\ Len(BatchOf) = 2
  /\ SinkError \notin Raised
  /\ "results" \notin DOMAIN res

(***************************************************************************)
(* C18.  A batch of more than 10 prompts is rejected wholesale with a      *)
(* single error before any item is dispatched: no backend call, no cache   *)
(* access and no metrics write happens for it.                             *)
(***************************************************************************)
C18_OversizeRejectedBeforeDispatch ==
  (handler = "batchGenerate" /\ Len(BatchOf) > 10) =>
    /\ hpc = "responded"
    /\ res.status = 400 /\ res.errorCode = "TOO_MANY_REQUESTS"
    /\ hlog = <<>>
    /\ items = <<>>
    /\ cache = {}
    /\ \A c \in Calls : log[c] = <<>>

\* a batch of 11 prompts was answered with the size-limit error
C18_Witness ==
  /\ handler = "batchGenerate" /\ Len(BatchOf) = 11
  /\ hpc = "responded" /\ res.status = 400

(***************************************************************************)
(* C19.  In a batch of length 1..10 the failure of one item, whatever its  *)
(* shape (a string, an object, null, an object without text), is recorded  *)
(* only in that item's result: every item is dispatched and the batch      *)
(* response is a success listing every item's outcome (the metrics sink    *)
(* being available).                                                       *)
(***************************************************************************)
C19_ItemFailureIsIsolated ==
  (BatchAnswered /\ Len(BatchOf) \in 1 .. 10 /\ SinkError \notin Raised) =>
    /\ Len(items) = Len(BatchOf)
    /\ res.status = 200 /\ res.success
    /\ Len(res.results) = Len(BatchOf)
    /\ Raised = {}

\* the batch <<"Hi", null>> was failed as a whole by its null item
C19_NullItemFailsBatch ==
  /\ BatchAnswered /\ Len(BatchOf) = 2
  /\ BatchOf[1].type = "string" /\ BatchOf[2].type = "null"
  /\ NullItemError \in Raised
  /\ res.status = 500

(***************************************************************************)
(* C20.  batchGenerate issues all N item dispatches before it waits on     *)
(* any of them, and produces its response only after every one of the N    *)
(* dispatches has settled: the response is never sent while an item is     *)
(* still pending.                                                          *)
(***************************************************************************)
C20_JoinWaitsForAll ==
  (handler = "batchGenerate" /\ Len(BatchOf) \in 1 .. 10) =>
    /\ Len(items) = Len(BatchOf)
    /\ Cardinality(HEventsOf("generate")) = Len(BatchOf)
    /\ hpc \in {"metrics", "responded"} =>
         \A i \in DOMAIN items : items[i].state # "pending"

\* a response was sent while a dispatched item was still pending
C20_RespondedWhilePending ==
  /\ handler = "batchGenerate" /\ hpc = "responded"
  /\ \E i \in DOMAIN items : items[i].state = "pending"

(***************************************************************************)
(* C21.  For every completed batch the aggregate record and the response   *)
(* satisfy successCount + failureCount = batch size, successCount = the    *)
(* number of items whose dispatch succeeded, failureCount = the number     *)
(* whose dispatch failed, and totalSuccessful of the response =            *)
(* successCount.                                                           *)
(***************************************************************************)
C21_AggregateCounts ==
  (handler = "batchGenerate" /\ HEventsOf("metrics") # {}) =>
    \A i \in HEventsOf("metrics") :
      LET m == hlog[i].record IN
        /\ m.successCount + m.failureCount = m.batchSize
        /\ m.batchSize = Len(BatchOf)
        /\ m.successCount =
             Cardinality({j \in DOMAIN items : items[j].state = "fulfilled"})
        /\ m.failureCount =
             Cardinality({j \in DOMAIN items : items[j].state = "rejected"})
        /\ (hpc = "responded" /\ res.status = 200) =>
             res.totalSuccessful = m.successCount

\* three items, item 1 failed: successCount 2, failureCount 1, answered
C21_Witness ==
  /\ handler = "batchGenerate" /\ hpc = "responded" /\ res.status = 200
  /\ Len(items) = 3
  /\ items[1].state = "fulfilled" /\ items[2].state = "rejected"
  /\ items[3].state = "fulfilled"
  /\ \E i \in HEventsOf("metrics") :
       hlog[i].record.successCount = 2 /\ hlog[i].record.failureCount = 1
  /\ res.totalSuccessful = 2

(***************************************************************************)
(* C22.  The metrics sink receives exactly one record per single-item      *)
(* dispatch, whether the dispatch succeeded or failed, with `successful`   *)
(* reflecting the outcome.                                                 *)
(***************************************************************************)
C22_OneRecordPerDispatch ==
  (handler = "generateText" /\ hpc = "responded" /\ HEventsOf("generate") # {}) =>
    /\ Cardinality(HEventsOf("metrics")) = 1
    /\ \A i \in HEventsOf("metrics") :
         hlog[i].record.successful = (gen # NoResult)

\* the service's generateText rejected, the request was answered, and no
\* record was handed to the metrics sink
C22_FailedDispatchNotRecorded ==
  /\ handler = "generateText" /\ hpc = "responded"
  /\ HEventsOf("generate") # {}
  /\ gen = NoResult
  /\ HEventsOf("metrics") = {}

(***************************************************************************)
(* C23.  A failed single-item dispatch is answered with the HTTP status    *)
(* hint of its error kind: 400 for invalid input (context length), 503 for *)
(* an unavailable backend, 429 for a rate-limited dispatch and 500 for an  *)
(* unknown error.                                                          *)
(***************************************************************************)
StatusHint(e) ==
  IF e.code = "model_not_available" THEN 503
  ELSE IF ErrorKind(e) = "InvalidInput" THEN 400
  ELSE IF ErrorKind(e) = "RateLimited" THEN 429
  ELSE IF ErrorKind(e) = "Unknown" THEN 500
  ELSE 0

\* the error the service rejected the dispatch with, if it did
ServiceRejections ==
  {hlog[i].error : i \in {j \in HEventsOf("error") :
                           j > 1 /\ hlog[j - 1].type = "generate"}}

C23_StatusHintPerKind ==
  (handler = "generateText" /\ hpc = "responded") =>
    \A e \in ServiceRejections :
      StatusHint(e) # 0 => res.status = StatusHint(e)

C23_RateLimitedAnswered500 ==
  /\ handler = "generateText" /\ hpc = "responded"
  /\ \E e \in ServiceRejections :
       /\ ErrorKind(e) = "RateLimited"
       /\ e \in Raised
       /\ res.status = 500

(***************************************************************************)
(* C24.  The project-store write (TextProject.create) is issued only when  *)
(* options.saveAsProject is set and only after a successful generation,    *)
(* and its outcome does not affect the dispatch: once the write has been   *)
(* issued the request is answered 200 with the generated text, whether the *)
(* write succeeds or fails.                                                *)
(***************************************************************************)
C24_ProjectWriteFireAndForget ==
  (handler = "generateText" /\ HEventsOf("createProject") # {}) =>
    /\ Flag(BodyOptions(req.body), "saveAsProject")
    /\ gen # NoResult
    /\ hpc = "responded" =>
         /\ res.status = 200
         /\ res.result.text = gen.text

C24_ProjectFailureFailsDispatch ==
  /\ handler = "generateText" /\ hpc = "responded"
  /\ HEventsOf("createProject") # {}
  /\ gen # NoResult
  /\ ProjectStoreError \in Raised
  /\ res.status = 500

(***************************************************************************)
(* C27.  In exports.generateText the model, temperature, prompt,           *)
(* systemPrompt, maxTokens and userId handed to the selected service's     *)
(* generateText are exactly the effective parameters, for every request    *)
(* body, including one whose options object has keys of those names; so    *)
(* the service selected, the model sent to it and the model of the metrics *)
(* record and of the response agree.                                       *)
(***************************************************************************)
C27_BackendReceivesEffective ==
  handler = "generateText" =>
    \A i \in HEventsOf("generate") :
      LET q == hlog[i].params IN
        /\ q.model = eff.model
        /\ q.temperature = eff.temperature
        /\ q.prompt = req.body.prompt
        /\ q.systemPrompt = EffectiveSystemPrompt(req.body, pref)
        /\ q.maxTokens = BodyMaxTokens(req.body)
        /\ q.userId = UserId(req.user)
        /\ hlog[i].service = SelectService(q.model)
        /\ \A j \in HEventsOf("metrics") : hlog[j].record.model = q.model
        /\ (hpc = "responded" /\ res.status = 200) => res.result.model = q.model

C27_OptionsOverrideModel ==
  /\ handler = "generateText" /\ hpc = "responded" /\ res.status = 200
  /\ "model" \in DOMAIN BodyOptions(req.body)
  /\ \E i \in HEventsOf("generate") :
       /\ hlog[i].params.model = Name_claude
       /\ hlog[i].service = "openaiService"
       /\ eff.model = Name_gpt4
       /\ res.result.model = Name_gpt4
       /\ \A j \in HEventsOf("metrics") : hlog[j].record.model = Name_gpt4

(***************************************************************************)
(* C28.  batchGenerate selects the OpenAI service for every model name;    *)
(* batchGenerate and generateText select the same service exactly for the  *)
(* model names that are not, capitals aside, one of palm, gemini, claude,  *)
(* claude-instant, local-llama and local-mistral, and different services   *)
(* for the names that are.                                                 *)
(***************************************************************************)
NonOpenAINames ==
  {Name_palm, Name_gemini, Name_claude, Name_claudeInstant,
   Name_localLlama, Name_localMistral}

\* a name with the capitals A to Z written small; the six names are
\* written in ASCII
SmallCapitals(name) ==
  [i \in DOMAIN name |->
     IF name[i] \in 65 .. 90 THEN name[i] + 32 ELSE name[i]]

C28_SameServiceOutsideSix ==
  (fcall.fn = "selectService" /\ fcall.done) =>
    /\ fcall.ret[2] = "openaiService"
    /\ (fcall.ret[1] = fcall.ret[2]) <=>
         (SmallCapitals(fcall.arg) \notin NonOpenAINames)

\* 'Claude-Instant' is claude-instant, capitals aside, and the two handlers
\* selected different services for it
C28_Witness ==
  /\ fcall.fn = "selectService" /\ fcall.done
  /\ fcall.arg = Name_ClaudeInstant
  /\ SmallCapitals(fcall.arg) = Name_claudeInstant
  /\ fcall.ret = <<"anthropicService", "openaiService">>

(***************************************************************************)
(* C25.  Under any interleaving of concurrent generateText calls with the  *)
(* same cache key: a call that missed makes its own backend call and       *)
(* returns the response data of its own backend result; a write leaves the *)
(* key's entry holding the writer's value, and the cache changes only by a *)
(* write or an expiry, so the entry stored is the last writer's; a call    *)
(* fails only with the error of its own last attempt; a hit returns the    *)
(* entry stored under its own key, which a call with that key wrote.       *)
(***************************************************************************)
\* the last event of type t in the log of call c
LastOf(c, t) == log[c][CHOOSE i \in EventsOf(c, t) :
                         \A j \in EventsOf(c, t) : j <= i]

\* call c looked its key up and missed
Missed(c) == \E i \in EventsOf(c, "get") : ~log[c][i].hit

\* call c completes its cache write in this step
WriteStep(c) == pc[c] = "storing" /\ pc'[c] = "returned"

\* an editText call completes its cache write in this step
EditWriteStep(c) == pc[c] = "editStoring" /\ pc'[c] = "returned"

\* call c returns a cache hit in this step
HitStep(c) == pc[c] = "lookup" /\ pc'[c] = "returned"

C25_OwnResult ==
  \A c \in Calls :
    caller[c] = "generateText" =>
      /\ (pc[c] \in {"storing", "returned"} /\ Missed(c)) =>
           /\ Count(c, "op") >= 1
           /\ Count(c, "ok") = 1
           /\ result[c] = ResponseData(LastOf(c, "ok").value)
      /\ pc[c] = "thrown" =>
           /\ Count(c, "fail") = Count(c, "op")
           /\ thrown[c] = mapToServiceError(LastOf(c, "fail").error)

\* entry e was written by a generateText call with its key
TextWritten(e) ==
  \E w \in Calls :
    /\ caller[w] = "generateText" /\ pc[w] = "returned"
    /\ WriteKey(Destructure(params[w])) = e.key
    /\ Count(w, "set") = 1
    /\ e.value = JsonStringify(result[w])

\* entry e was written by an editText call with its key
EditWritten(e) ==
  \E w \in Calls :
    /\ caller[w] = "editText" /\ pc[w] = "returned"
    /\ EditKey(EditDestructure(params[w])) = e.key
    /\ Count(w, "set") = 1
    /\ e.value = JsonStringify(result[w])

C25_EntriesHaveWriters ==
  /\ \A e \in cache : TextWritten(e) \/ EditWritten(e)
  /\ \A c \in Calls : \A e \in cache :
       (caller[c] = "generateText"
        /\ e.key = LookupKey(Destructure(params[c]))) => TextWritten(e)

C25_LastWriterWins ==
  /\ \A c \in Calls :
       WriteStep(c) =>
         /\ result'[c] = result[c]
         /\ \A e \in cache' :
              e.key = WriteKey(Destructure(params[c]))
                => e.value = JsonStringify(result[c])
         /\ \E e \in cache' : e.key = WriteKey(Destructure(params[c]))
         /\ \A e \in cache' :
              e.key # WriteKey(Destructure(params[c])) => e \in cache
  /\ \A c \in Calls :
       HitStep(c) =>
         /\ CacheHas(LookupKey(Destructure(params[c])))
         /\ result'[c] = JsonParse(CacheGet(LookupKey(Destructure(params[c]))))
  /\ \A c \in Calls :
       EditWriteStep(c) =>
         \A e \in cache' :
           e.key # EditKey(EditDestructure(params[c])) => e \in cache
  /\ (\A c \in Calls : ~WriteStep(c) /\ ~EditWriteStep(c)) => cache' \subseteq cache

C25_SameKeyRaceIsSafe ==
  /\ [](C25_OwnResult /\ C25_EntriesHaveWriters)
  /\ [][C25_LastWriterWins]_vars

\* both calls missed on the same key, called the backend, got different
\* results and wrote; each returned its own, the entry holds one of them
C25_Witness ==
  /\ \A c \in Calls :
       /\ caller[c] = "generateText" /\ pc[c] = "returned"
       /\ Missed(c) /\ Count(c, "set") = 1
  /\ WriteKey(Destructure(params[1])) = WriteKey(Destructure(params[2]))
  /\ result[1] # result[2]
  /\ result[1] = ResponseData(LastOf(1, "ok").value)
  /\ result[2] = ResponseData(LastOf(2, "ok").value)
  /\ \E e \in cache :
       /\ e.key = WriteKey(Destructure(params[1]))
       /\ e.value = JsonStringify(result[2])

(***************************************************************************)
(* C26.  The operation of a timed-out attempt is not cancelled, so up to   *)
(* maxRetries + 1 invocations can be pending together; executeWithRetry    *)
(* returns only the result of the attempt that is current when it returns, *)
(* never the late result of an abandoned attempt, and a late completion or *)
(* late failure of an abandoned attempt changes neither the attempt        *)
(* counter nor the outcome.                                                *)
(***************************************************************************)
\* the index in the log of the operation call of the current attempt
CurrentOp(c) == CHOOSE i \in EventsOf(c, "op") : log[c][i].attempt = attempt[c]

C26_CurrentAttemptResult ==
  /\ pc[1] = "returned" =>
       /\ Count(1, "ok") = 1
       /\ \A i \in EventsOf(1, "ok") :
            /\ i > CurrentOp(1)
            /\ \A j \in EventsOf(1, "op") \cup EventsOf(1, "fail") :
                 j < CurrentOp(1) \/ j = CurrentOp(1)
            /\ result[1] = log[1][i].value
  /\ pc[1] = "thrown" =>
       /\ Count(1, "ok") = 0
       /\ thrown[1] = mapToServiceError(LastOf(1, "fail").error)
  /\ caller[1] # "none" =>
       /\ Cardinality(InFlight(1)) <= config[1].maxRetries + 1
       /\ attempt[1] <= config[1].maxRetries + 1

C26_LateStepChangesNothing ==
  Count(1, "late")' > Count(1, "late") =>
    /\ attempt' = attempt /\ pc' = pc
    /\ result' = result /\ thrown' = thrown /\ lastError' = lastError

C26_LateSettlementIsIgnored ==
  /\ []C26_CurrentAttemptResult
  /\ [][C26_LateStepChangesNothing]_vars

\* attempts 0 and 1 timed out and attempt 2 returned while both were still
\* pending; then attempt 0 resolved with another result and attempt 1 failed
C26_Witness ==
  /\ pc[1] = "returned" /\ config[1].maxRetries = 2 /\ attempt[1] = 2
  /\ Abandoned(1) = {0, 1} /\ SettledLate(1) = {0, 1}
  /\ \A i \in EventsOf(1, "late") : \A j \in EventsOf(1, "ok") : i > j
  /\ \E i \in EventsOf(1, "late") :
       log[1][i].attempt = 0 /\ log[1][i].resolved /\ log[1][i].value # result[1]
  /\ \E i \in EventsOf(1, "late") :
       log[1][i].attempt = 1 /\ ~log[1][i].resolved

====
